---- MODULE Spec2Model ----
(***************************************************************************)
(* A model of src/src/pbrt/bxdfs.h: the simple lobes (Diffuse,             *)
(* DiffuseTransmission, ThinDielectric, Conductor, NormalizedFresnel), the *)
(* Disney multi-lobe model and the LayeredBxDF random walks (f, Sample_f,  *)
(* PDF).                                                                   *)
(*                                                                         *)
(* Conventions of the model                                                *)
(*  - A Float is an exact rational <<n, d>> in lowest terms with d > 0;    *)
(*    <<1, 0>> and <<-1, 0>> are +inf and -inf, <<0, 0>> is NaN (IEEE      *)
(*    results of a division by zero).  Rounding is not modelled.           *)
(*  - A SampledSpectrum is a tuple of two Floats (two wavelengths).        *)
(*  - A direction is its z component only, an integer w in -2..2 standing  *)
(*    for cos(theta) = w/2; x and y are not modelled.                      *)
(*  - Transcendental collaborators (exp, sqrt, log, the microfacet         *)
(*    distribution, the Fresnel equations) are replaced by rational        *)
(*    stand-ins with the same zeros, signs and monotonicity.               *)
(***************************************************************************)
EXTENDS Integers, Sequences, FiniteSets, TLC

\* The only element of a one-element set.  Only({e(v) : v \in {x}}) is
\* e(x) with x evaluated once and named v.
Only(S) == CHOOSE x \in S : TRUE

\* ------------------------------------------------------------------ Floats

Abs(x) == IF x < 0 THEN -x ELSE x

Sgn(x) == IF x > 0 THEN 1 ELSE IF x < 0 THEN -1 ELSE 0

RECURSIVE GCD(_, _)
GCD(a, b) == IF b = 0 THEN a ELSE GCD(b, a % b)

Q(n, d) ==
    IF d = 0 THEN <<Sgn(n), 0>>
    ELSE LET g == GCD(Abs(n), Abs(d))
         IN  <<(Sgn(d) * n) \div g, Abs(d) \div g>>

Zero == Q(0, 1)

One == Q(1, 1)

NaN == <<0, 0>>

IsNaN(a) == a = NaN

IsInf(a) == a[2] = 0 /\ a[1] # 0

LCM(a, b) == (a \div GCD(a, b)) * b

QAdd(a, b) ==
    IF IsNaN(a) \/ IsNaN(b) THEN NaN
    ELSE IF IsInf(a) /\ IsInf(b) THEN (IF a = b THEN a ELSE NaN)
    ELSE IF IsInf(a) THEN a
    ELSE IF IsInf(b) THEN b
    ELSE LET l == LCM(a[2], b[2])
         IN  Q(a[1] * (l \div a[2]) + b[1] * (l \div b[2]), l)

QNeg(a) == <<-a[1], a[2]>>

QSub(a, b) == QAdd(a, QNeg(b))

QMul(a, b) ==
    IF a[2] = 0 \/ b[2] = 0 THEN Q(a[1] * b[1], 0)
    ELSE LET g1 == GCD(Abs(a[1]), b[2])
             g2 == GCD(Abs(b[1]), a[2])
         IN  Q((a[1] \div g1) * (b[1] \div g2),
               (a[2] \div g2) * (b[2] \div g1))

\* 1 / b: 1 / 0 is +inf, 1 / inf is 0
QInv(b) == Q(b[2], b[1])

QDiv(a, b) == QMul(a, QInv(b))

\* IEEE comparisons: every comparison with a NaN is false.
QEq(a, b) == ~IsNaN(a) /\ ~IsNaN(b) /\ a = b

QLt(a, b) ==
    IF IsNaN(a) \/ IsNaN(b) \/ a = b THEN FALSE
    ELSE IF a[2] = 0 THEN a[1] < 0
    ELSE IF b[2] = 0 THEN b[1] > 0
    ELSE LET l == LCM(a[2], b[2])
         IN  a[1] * (l \div a[2]) < b[1] * (l \div b[2])

QLe(a, b) == QLt(a, b) \/ QEq(a, b)

QGt(a, b) == QLt(b, a)

QGe(a, b) == QLe(b, a)

\* std::max(a, b) is (a < b) ? b : a
QMax(a, b) == IF QLt(a, b) THEN b ELSE a

QMin(a, b) == IF QLt(b, a) THEN b ELSE a

QAbs(a) == <<Abs(a[1]), a[2]>>

Sqr(a) == QMul(a, a)

\* Lerp(x, a, b) = (1 - x) * a + x * b
Lerp(x, a, b) == QAdd(QMul(QSub(One, x), a), QMul(x, b))

\* PowerHeuristic(nf, fPdf, ng, gPdf): f^2 / (f^2 + g^2), 1 when f is infinite
PowerHeuristic(nf, fPdf, ng, gPdf) ==
    Only({IF IsInf(Sqr(f)) THEN One
          ELSE QDiv(Sqr(f), QAdd(Sqr(f), Sqr(g))) :
            f \in {QMul(Q(nf, 1), fPdf)},
            g \in {QMul(Q(ng, 1), gPdf)}})

\* pi and 1/pi, rounded to a power of two: every Float of the model is then
\* a small fraction.
Pi == Q(4, 1)

InvPi == Q(1, 4)

\* The largest Float below 1.
OneMinusEpsilon == Q(127, 128)

\* ---------------------------------------------------------------- Spectra

Spectrum(a, b) == <<a, b>>

SConst(a) == <<a, a>>

SZero == SConst(Zero)

SMul(s, t) == [i \in DOMAIN s |-> QMul(s[i], t[i])]

SAdd(s, t) == [i \in DOMAIN s |-> QAdd(s[i], t[i])]

SScale(s, a) == [i \in DOMAIN s |-> QMul(s[i], a)]

SDiv(s, a) == [i \in DOMAIN s |-> QDiv(s[i], a)]

\* operator bool: some component differs from 0 (a NaN differs from 0)
SNonZero(s) == \E i \in DOMAIN s : ~QEq(s[i], Zero)

MaxComponentValue(s) == QMax(s[1], s[2])

\* ------------------------------------------------------------- Directions

Dirs == -2..2

CosTheta(w) == Q(w, 2)

AbsCosTheta(w) == Q(Abs(w), 2)

SameHemisphere(w, wp) == w * wp > 0

\* ------------------------------------------------------------------ Flags

Unset == {}

DiffuseReflection == {"Diffuse", "Reflection"}

DiffuseTransmission == {"Diffuse", "Transmission"}

GlossyReflection == {"Glossy", "Reflection"}

SpecularReflection == {"Specular", "Reflection"}

SpecularTransmission == {"Specular", "Transmission"}

IsReflective(fl) == "Reflection" \in fl

IsTransmissive(fl) == "Transmission" \in fl

IsDiffuse(fl) == "Diffuse" \in fl

IsGlossy(fl) == "Glossy" \in fl

IsSpecular(fl) == "Specular" \in fl

IsNonSpecular(fl) == IsDiffuse(fl) \/ IsGlossy(fl)

\* BxDFReflTransFlags
ReflOnly == {"Reflection"}

TransOnly == {"Transmission"}

All == {"Reflection", "Transmission"}

ReflTransFlags == {Unset, ReflOnly, TransOnly, All}

Modes == {"Radiance", "Importance"}

\* !mode
NotMode(mode) == IF mode = "Radiance" THEN "Importance" ELSE "Radiance"

\* ------------------------------------------------------------- BSDFSample

BSDFSample(f, wi, pdf, flags) ==
    [present |-> TRUE, f |-> f, wi |-> wi, pdf |-> pdf, flags |-> flags,
     pdfIsProportional |-> FALSE]

\* An empty pstd::optional<BSDFSample>
NoSample ==
    [present |-> FALSE, f |-> SZero, wi |-> 0, pdf |-> Zero, flags |-> Unset,
     pdfIsProportional |-> FALSE]

\* A value-initialised BSDFSample: BSDFSample s = {}
DefaultBSDFSample ==
    [present |-> TRUE, f |-> SZero, wi |-> 0, pdf |-> Zero, flags |-> Unset,
     pdfIsProportional |-> FALSE]

\* ---------------------------------------------------------- Collaborators
\* Code of pbrt that bxdfs.h calls and that lives in other headers
\* (util/sampling.h, util/scattering.h, media.h).

\* SampleCosineHemisphere(u): the concentric disk radius is the larger of
\* |2u.x - 1|, |2u.y - 1| and z = sqrt(1 - r^2): 0 on the rim (r = 1), 1 at
\* the centre, in between otherwise.  Always in the upper hemisphere.
SampleCosineHemisphere(u) ==
    Only({IF QEq(r, One) THEN 0 ELSE IF QEq(r, Zero) THEN 2 ELSE 1 :
            r \in {QMax(QAbs(QSub(QMul(Q(2, 1), u[1]), One)),
                        QAbs(QSub(QMul(Q(2, 1), u[2]), One)))}})

CosineHemispherePDF(cosTheta) == QMul(cosTheta, InvPi)

\* FrDielectric(cosTheta_i, eta): a negative cosine swaps the media; total
\* internal reflection (sin^2 theta_t >= 1) gives 1; otherwise the
\* reflectance rises from ((eta - 1) / (eta + 1))^2 at normal incidence to 1
\* at grazing incidence, through one value in between.
FrDielectric(cosTheta_i, eta) ==
    Only({IF QGe(QDiv(QSub(One, Sqr(c)), Sqr(e)), One) THEN One
          ELSE IF QEq(e, One) THEN Zero
          ELSE IF QEq(c, One) THEN Sqr(QDiv(QSub(e, One), QAdd(e, One)))
          ELSE IF QEq(c, Zero) THEN One
          ELSE QMax(Sqr(QDiv(QSub(e, One), QAdd(e, One))), Q(1, 3)) :
            c \in {QAbs(cosTheta_i)},
            e \in {IF QLt(cosTheta_i, Zero) THEN QDiv(One, eta) ELSE eta}})

\* FrComplex(cosTheta_i, eta, k): the conductor's reflectance, here the
\* normal-incidence reflectance r0 raised towards 1 at grazing angles.
FrComplex(cosTheta_i, r0) ==
    Only({[i \in DOMAIN r0 |->
             QAdd(r0[i], QMul(QSub(One, r0[i]),
                              QMul(QMul(Sqr(m), Sqr(m)), m)))] :
            m \in {QSub(One, QAbs(cosTheta_i))}})

\* The z component of Reflect(wo, wm) for the microfacet normal wm that
\* Sample_wm(wo, u) returns: wm = n leaves z alone, a tilted normal moves z
\* to the other level, a horizontal normal sends the direction through the
\* surface (z negated).
ReflectAboutSampledNormal(wo, u) ==
    Only({IF t = 2 THEN wo
          ELSE IF t = 1
          THEN Sgn(wo) * (3 - Abs(wo)) * (IF wo = 0 THEN 0 ELSE 1)
          ELSE -wo :
            t \in {SampleCosineHemisphere(u)}})

\* mfDistrib.PDF(wo, wm) / (4 |wo . wm|) = G1(wo) D(wm) / (4 |cos theta_o|),
\* with G1 = D = 1.
MicrofacetReflectionPDF(wo, wi) == QDiv(One, QMul(Q(4, 1), AbsCosTheta(wo)))

\* mfDistrib.D(wm) * mfDistrib.G(wo, wi), with D = G = 1.
MicrofacetDG(wo, wi) == One

\* HGPhaseFunction: p(wo, wi) and Sample_p(wo, u); isotropic value 1/(4 pi).
PhaseP(wo, wi) == QDiv(One, QMul(Q(4, 1), Pi))

PhasePDF(wo, wi) == PhaseP(wo, wi)

\* The sampled direction covers the whole sphere, the horizon included.
PhaseSampleDir(wo, u) ==
    Only({IF QLt(u[1], Q(1, 2)) THEN -a ELSE a :
            a \in {SampleCosineHemisphere(u)}})

Sample_p(wo, u) ==
    Only({[present |-> TRUE, p |-> PhaseP(wo, wi), wi |-> wi,
           pdf |-> PhasePDF(wo, wi)] :
            wi \in {PhaseSampleDir(wo, u)}})

\* SampleExponential(u, a) = -log(1 - u) / a, with -log(1 - u) replaced by a
\* stand-in that is 0 at u = 0 and grows with u.
SampleExponential(u, a) ==
    QDiv(IF QEq(u, Zero) THEN Zero
         ELSE IF QLe(u, Q(1, 2)) THEN One
         ELSE Q(8, 1),
         a)

\* FastExp(-x) for x >= 0: 1 at 0, below 1 and positive elsewhere.
FastExpNeg(x) == QDiv(One, QAdd(One, x))

\* -------------------------------------------------------------- Lobes
\* A lobe instance: its kind and members.

Lobe(kind, R, T, eta, smooth, metallic, clearcoat, subsurface) ==
    [kind |-> kind, R |-> R, T |-> T, eta |-> eta, smooth |-> smooth,
     metallic |-> metallic, clearcoat |-> clearcoat,
     subsurface |-> subsurface]

DiffuseBxDF(R) == Lobe("Diffuse", R, SZero, One, FALSE, Zero, Zero, Zero)

DiffuseTransmissionBxDF(R, T) ==
    Lobe("DiffuseTransmission", R, T, One, FALSE, Zero, Zero, Zero)

ThinDielectricBxDF(eta) ==
    Lobe("ThinDielectric", SZero, SZero, eta, TRUE, Zero, Zero, Zero)

\* mfDistrib.EffectivelySmooth() is the member smooth; R is the reflectance
\* that eta and k give at normal incidence.
ConductorBxDF(smooth, r0) ==
    Lobe("Conductor", r0, SZero, One, smooth, Zero, Zero, Zero)

NormalizedFresnelBxDF(eta) ==
    Lobe("NormalizedFresnel", SZero, SZero, eta, FALSE, Zero, Zero, Zero)

DielectricBxDF(eta) ==
    Lobe("Dielectric", SZero, SZero, eta, TRUE, Zero, Zero, Zero)

DisneyBxDF(color, metallic, clearcoat, subsurface) ==
    Lobe("Disney", color, SZero, Q(3, 2), FALSE, metallic, clearcoat,
         subsurface)

\* ---- DiffuseBxDF

Diffuse_f(b, wo, wi, mode) ==
    IF ~SameHemisphere(wo, wi) THEN SZero ELSE SScale(b.R, InvPi)

Diffuse_Sample_f(b, wo, uc, u, mode, sampleFlags) ==
    IF ~IsReflective(sampleFlags) THEN NoSample
    ELSE Only({BSDFSample(SScale(b.R, InvPi), wi,
                          CosineHemispherePDF(AbsCosTheta(wi)),
                          DiffuseReflection) :
                 wi \in {IF wo < 0 THEN -SampleCosineHemisphere(u)
                         ELSE SampleCosineHemisphere(u)}})

Diffuse_PDF(b, wo, wi, mode, sampleFlags) ==
    IF ~IsReflective(sampleFlags) \/ ~SameHemisphere(wo, wi) THEN Zero
    ELSE CosineHemispherePDF(AbsCosTheta(wi))

Diffuse_Flags(b) == IF SNonZero(b.R) THEN DiffuseReflection ELSE Unset

\* ---- DiffuseTransmissionBxDF

DiffuseTransmission_f(b, wo, wi, mode) ==
    IF SameHemisphere(wo, wi) THEN SScale(b.R, InvPi) ELSE SScale(b.T, InvPi)

\* The sampling weights pr and pt under sampleFlags
DiffuseTransmission_pr(b, sampleFlags) ==
    IF ~IsReflective(sampleFlags) THEN Zero ELSE MaxComponentValue(b.R)

DiffuseTransmission_pt(b, sampleFlags) ==
    IF ~IsTransmissive(sampleFlags) THEN Zero ELSE MaxComponentValue(b.T)

DiffuseTransmission_Sample_f(b, wo, uc, u, mode, sampleFlags) ==
    Only({IF QEq(pr, Zero) /\ QEq(pt, Zero) THEN NoSample
          ELSE IF QLt(uc, QDiv(pr, QAdd(pr, pt))) THEN
              Only({BSDFSample(
                        DiffuseTransmission_f(b, wo, wi, mode), wi,
                        QDiv(QMul(CosineHemispherePDF(AbsCosTheta(wi)), pr),
                             QAdd(pr, pt)),
                        DiffuseReflection) :
                      wi \in {IF wo < 0 THEN -c ELSE c}})
          ELSE
              Only({BSDFSample(
                        DiffuseTransmission_f(b, wo, wi, mode), wi,
                        QDiv(QMul(CosineHemispherePDF(AbsCosTheta(wi)), pt),
                             QAdd(pr, pt)),
                        DiffuseTransmission) :
                      wi \in {IF wo > 0 THEN -c ELSE c}}) :
            pr \in {DiffuseTransmission_pr(b, sampleFlags)},
            pt \in {DiffuseTransmission_pt(b, sampleFlags)},
            c \in {SampleCosineHemisphere(u)}})

DiffuseTransmission_PDF(b, wo, wi, mode, sampleFlags) ==
    Only({IF QEq(pr, Zero) /\ QEq(pt, Zero) THEN Zero
          ELSE IF SameHemisphere(wo, wi) THEN
              QMul(QDiv(pr, QAdd(pr, pt)),
                   CosineHemispherePDF(AbsCosTheta(wi)))
          ELSE
              QMul(QDiv(pt, QAdd(pr, pt)),
                   CosineHemispherePDF(AbsCosTheta(wi))) :
            pr \in {DiffuseTransmission_pr(b, sampleFlags)},
            pt \in {DiffuseTransmission_pt(b, sampleFlags)}})

DiffuseTransmission_Flags(b) ==
    (IF SNonZero(b.R) THEN DiffuseReflection ELSE Unset) \cup
    (IF SNonZero(b.T) THEN DiffuseTransmission ELSE Unset)

\* ---- ThinDielectricBxDF

ThinDielectric_f(b, wo, wi, mode) == SZero

\* R of a single interface
ThinDielectric_R_Single(b, wo) == FrDielectric(AbsCosTheta(wo), b.eta)

\* R and T accounting for scattering between the two interfaces
ThinDielectric_R(b, wo) ==
    Only({IF QLt(R0, One)
          THEN QAdd(R0, QDiv(QMul(Sqr(QSub(One, R0)), R0),
                             QSub(One, Sqr(R0))))
          ELSE R0 :
            R0 \in {FrDielectric(AbsCosTheta(wo), b.eta)}})

\* The choice between the two delta lobes, from R and the weights pr, pt
ThinDielectric_Choose(wo, uc, R, pr, pt) ==
    IF QEq(pr, Zero) /\ QEq(pt, Zero) THEN NoSample
    ELSE IF QLt(uc, QDiv(pr, QAdd(pr, pt))) THEN
        BSDFSample(SConst(QDiv(R, AbsCosTheta(wo))), wo,
                   QDiv(pr, QAdd(pr, pt)), SpecularReflection)
    ELSE
        BSDFSample(SConst(QDiv(QSub(One, R), AbsCosTheta(-wo))), -wo,
                   QDiv(pt, QAdd(pr, pt)), SpecularTransmission)

ThinDielectric_Sample_f(b, wo, uc, u, mode, sampleFlags) ==
    Only({ThinDielectric_Choose(
              wo, uc, R,
              IF ~IsReflective(sampleFlags) THEN Zero ELSE R,
              IF ~IsTransmissive(sampleFlags) THEN Zero ELSE QSub(One, R)) :
            R \in {ThinDielectric_R(b, wo)}})

ThinDielectric_PDF(b, wo, wi, mode, sampleFlags) == Zero

ThinDielectric_Flags(b) == {"Reflection", "Transmission", "Specular"}

\* ---- ConductorBxDF

Conductor_Flags(b) ==
    IF b.smooth THEN SpecularReflection ELSE GlossyReflection

\* The rough-surface value F D G / (4 cos theta_i cos theta_o)
Conductor_Rough_f(b, wo, wi) ==
    SDiv(SScale(FrComplex(AbsCosTheta(wo), b.R), MicrofacetDG(wo, wi)),
         QMul(Q(4, 1), QMul(AbsCosTheta(wi), AbsCosTheta(wo))))

Conductor_Sample_f(b, wo, uc, u, mode, sampleFlags) ==
    IF ~IsReflective(sampleFlags) THEN NoSample
    ELSE IF b.smooth THEN
        BSDFSample(SDiv(FrComplex(AbsCosTheta(wo), b.R), AbsCosTheta(wo)),
                   wo, One, SpecularReflection)
    ELSE IF wo = 0 THEN NoSample
    ELSE Only({IF ~SameHemisphere(wo, wi) THEN NoSample
               ELSE IF wi = 0 \/ wo = 0 THEN NoSample
               ELSE BSDFSample(Conductor_Rough_f(b, wo, wi), wi,
                               MicrofacetReflectionPDF(wo, wi),
                               GlossyReflection) :
                 wi \in {ReflectAboutSampledNormal(wo, u)}})

Conductor_f(b, wo, wi, mode) ==
    IF ~SameHemisphere(wo, wi) THEN SZero
    ELSE IF b.smooth THEN SZero
    ELSE IF wi = 0 \/ wo = 0 THEN SZero
    ELSE IF wo + wi = 0 THEN SZero
    ELSE Conductor_Rough_f(b, wo, wi)

Conductor_PDF(b, wo, wi, mode, sampleFlags) ==
    IF ~IsReflective(sampleFlags) THEN Zero
    ELSE IF ~SameHemisphere(wo, wi) THEN Zero
    ELSE IF b.smooth THEN Zero
    ELSE IF wo + wi = 0 THEN Zero
    ELSE MicrofacetReflectionPDF(wo, wi)

\* ---- NormalizedFresnelBxDF

\* 1 - 2 * FresnelMoment1(1 / eta), a positive constant of eta
NormalizedFresnel_c(b) == Q(1, 2)

\* The factor of the adjoint applied in the other mode
NormalizedFresnel_f_Importance(b, wo, wi, mode) ==
    IF ~SameHemisphere(wo, wi) THEN SZero
    ELSE Only({IF mode = "Importance" THEN SConst(QMul(f, Sqr(b.eta)))
               ELSE SConst(f) :
                 f \in {QDiv(QSub(One, FrDielectric(CosTheta(wi), b.eta)),
                             QMul(NormalizedFresnel_c(b), Pi))}})

NormalizedFresnel_f(b, wo, wi, mode) ==
    IF ~SameHemisphere(wo, wi) THEN SZero
    ELSE Only({IF mode = "Radiance" THEN SConst(QMul(f, Sqr(b.eta)))
               ELSE SConst(f) :
                 f \in {QDiv(QSub(One, FrDielectric(CosTheta(wi), b.eta)),
                             QMul(NormalizedFresnel_c(b), Pi))}})

NormalizedFresnel_PDF(b, wo, wi, mode, sampleFlags) ==
    IF ~IsReflective(sampleFlags) THEN Zero
    ELSE IF SameHemisphere(wo, wi) THEN QMul(AbsCosTheta(wi), InvPi)
    ELSE Zero

\* The return type is BSDFSample, not pstd::optional<BSDFSample>: "return {}"
\* is a value-initialised sample, which the facade wraps as a present one.
NormalizedFresnel_Sample_f(b, wo, uc, u, mode, sampleFlags) ==
    IF ~IsReflective(sampleFlags) THEN DefaultBSDFSample
    ELSE Only({BSDFSample(
                   NormalizedFresnel_f(b, wo, wi, mode), wi,
                   NormalizedFresnel_PDF(b, wo, wi, mode, sampleFlags),
                   DiffuseReflection) :
                 wi \in {IF wo < 0 THEN -SampleCosineHemisphere(u)
                         ELSE SampleCosineHemisphere(u)}})

NormalizedFresnel_Flags(b) == {"Reflection", "Diffuse"}

\* ---- DielectricBxDF (smooth regime)

Dielectric_Flags(b) ==
    (IF QEq(b.eta, One) THEN {"Transmission"}
     ELSE {"Reflection", "Transmission"}) \cup
    (IF b.smooth THEN {"Specular"} ELSE {"Glossy"})

\* Delta reflect/refract chosen with the Fresnel-derived probability; the
\* refracted direction bends to the normal and is absent under total
\* internal reflection.
Dielectric_Choose(b, wo, uc, R, pr, pt) ==
    IF QEq(pr, Zero) /\ QEq(pt, Zero) THEN NoSample
    ELSE IF QLt(uc, QDiv(pr, QAdd(pr, pt))) THEN
        BSDFSample(SConst(QDiv(R, AbsCosTheta(wo))), wo,
                   QDiv(pr, QAdd(pr, pt)), SpecularReflection)
    ELSE IF QEq(R, One) \/ wo = 0 THEN NoSample
    ELSE Only({BSDFSample(SConst(QDiv(QSub(One, R), AbsCosTheta(wi))), wi,
                          QDiv(pt, QAdd(pr, pt)), SpecularTransmission) :
                 wi \in {IF QEq(b.eta, One) THEN -wo ELSE -2 * Sgn(wo)}})

Dielectric_Sample_f(b, wo, uc, u, mode, sampleFlags) ==
    Only({Dielectric_Choose(
              b, wo, uc, R,
              IF ~IsReflective(sampleFlags) THEN Zero ELSE R,
              IF ~IsTransmissive(sampleFlags) THEN Zero ELSE QSub(One, R)) :
            R \in {FrDielectric(CosTheta(wo), b.eta)}})

Dielectric_f(b, wo, wi, mode) == SZero

Dielectric_PDF(b, wo, wi, mode, sampleFlags) == Zero

\* ---- DisneyBxDF

SchlickFresnel(u) ==
    Only({QMul(QMul(Sqr(m), Sqr(m)), m) :
            m \in {QMax(Zero, QMin(One, QSub(One, u)))}})

\* GTR1, GTR2 (normal distributions) and SmithGGXVN (shadowing) are positive
\* for every argument; Dot(wo, wh) and cos(theta_h) of the half vector lie
\* in (0, 1].
GTR1(cosTheta, a) == InvPi

GTR2(cosTheta, a) == InvPi

SmithGGXVN(w, a) == One

HalfVectorDot(wo, wi) == Q(1, 2)

HalfVectorCos(wo, wi) == Q(1, 2)

Disney_roughness == Q(1, 2)

Disney_sheen == Q(1, 2)

\* ComputeWeights: sr, dr, cr from metallicWeight, dielectricWeight,
\* specularWeight = metallic + dielectric, diffuseWeight = dielectric and
\* clearcoatWeight = clearcoat
Disney_Weights(b) ==
    [sw |-> QAdd(b.metallic, QSub(One, b.metallic)),
     dw |-> QSub(One, b.metallic),
     cw |-> b.clearcoat]

\* The weights as they are, without the factor norm
ComputeWeights_Unnormalized(b) ==
    Only({[sr |-> x.sw, dr |-> x.dw, cr |-> x.cw] :
            x \in {Disney_Weights(b)}})

ComputeWeights(b) ==
    Only({Only({[sr |-> QMul(x.sw, norm), dr |-> QMul(x.dw, norm),
                 cr |-> QMul(x.cw, norm)] :
                  norm \in {QDiv(One, QAdd(QAdd(x.sw, x.dw), x.cw))}}) :
            x \in {Disney_Weights(b)}})

DisneyDiffuseF(b, wo, wi) ==
    Only({SScale(SScale(SScale(b.R, InvPi),
                        QMul(Lerp(Fi, One, Fd90), Lerp(Fo, One, Fd90))),
                 QSub(One, b.metallic)) :
            Fo \in {SchlickFresnel(CosTheta(wo))},
            Fi \in {SchlickFresnel(CosTheta(wi))},
            Fd90 \in {QAdd(Q(1, 2),
                           QMul(Q(2, 1),
                                QMul(QMax(Q(1, 1000), Disney_roughness),
                                     Sqr(HalfVectorDot(wo, wi)))))}})

\* 1.25 * (Fss * (1 / (cosWi + cosWo) - 0.5) + 0.5)
DisneySubsurface_ss(Fss, cosWo, cosWi) ==
    QMul(Q(5, 4),
         QAdd(QMul(Fss, QSub(QDiv(One, QAdd(cosWi, cosWo)), Q(1, 2))),
              Q(1, 2)))

DisneySubsurfaceF(b, wo, wi) ==
    Only({SScale(SScale(SScale(b.R, InvPi),
                        DisneySubsurface_ss(
                            QMul(Lerp(FL, One, Fss90), Lerp(FV, One, Fss90)),
                            AbsCosTheta(wo), AbsCosTheta(wi))),
                 QSub(One, b.metallic)) :
            FL \in {SchlickFresnel(AbsCosTheta(wi))},
            FV \in {SchlickFresnel(AbsCosTheta(wo))},
            Fss90 \in {QMul(Sqr(HalfVectorDot(wo, wi)),
                            QMax(Q(1, 1000), Disney_roughness))}})

\* The three same-hemisphere terms: specular, clearcoat, sheen
Disney_spec(b, wo, wi, FD, J) ==
    SScale(SScale([i \in DOMAIN b.R |-> Lerp(b.metallic, FD, b.R[i])],
                  QMul(GTR2(HalfVectorCos(wo, wi), Disney_roughness),
                       QMul(SmithGGXVN(wo, Disney_roughness),
                            SmithGGXVN(wi, Disney_roughness)))),
           J)

Disney_coat(wo, wi, FH, J) ==
    QMul(QMul(QMul(GTR1(HalfVectorCos(wo, wi), Q(1, 10)),
                   Lerp(FH, Q(1, 25), One)),
              QMul(SmithGGXVN(wo, Q(1, 4)), SmithGGXVN(wi, Q(1, 4)))),
         J)

\* BRDF_F after the two-sided flip (twoSided is set by the constructor)
Disney_BRDF_F_Upper(b, wo, wi) ==
    IF ~SameHemisphere(wo, wi) THEN
        IF QGt(b.subsurface, Zero) THEN DisneySubsurfaceF(b, wo, wi)
        ELSE SZero
    ELSE Only({SAdd(SAdd(SAdd(DisneyDiffuseF(b, wo, wi),
                              SConst(QMul(FH, Disney_sheen))),
                         Disney_spec(b, wo, wi, FD, J)),
                    SConst(QMul(b.clearcoat, Disney_coat(wo, wi, FH, J)))) :
                 FH \in {SchlickFresnel(HalfVectorDot(wo, wi))},
                 FD \in {FrDielectric(HalfVectorDot(wo, wi), b.eta)},
                 J \in {QDiv(One, QMul(Q(4, 1), QMul(AbsCosTheta(wo),
                                                     AbsCosTheta(wi))))}})

\* BRDF_F without the flip of wo and wi
Disney_BRDF_F_OneSided(b, wo0, wi0) == Disney_BRDF_F_Upper(b, wo0, wi0)

Disney_BRDF_F(b, wo0, wi0) ==
    Disney_BRDF_F_Upper(b, IF wo0 < 0 THEN -wo0 ELSE wo0,
                        IF wo0 < 0 THEN -wi0 ELSE wi0)

Disney_f(b, wo, wi, mode) == Disney_BRDF_F(b, wo, wi)

\* BRDF_PDF after the two-sided flip: the three lobes' densities weighted
\* by sr, dr and cr; no test of the hemisphere of wi.
Disney_BRDF_PDF_Upper(b, wo, wi) ==
    Only({QAdd(QAdd(QMul(QDiv(QMul(QMul(QMul(SmithGGXVN(wo, Disney_roughness),
                                             HalfVectorDot(wo, wi)),
                                        GTR2(absCosWh, Disney_roughness)),
                                   J),
                              AbsCosTheta(wo)),
                         w.sr),
                    QMul(CosineHemispherePDF(AbsCosTheta(wi)), w.dr)),
               QMul(QMul(QMul(GTR1(absCosWh, Q(1, 10)), absCosWh), J),
                    w.cr)) :
            w \in {ComputeWeights(b)},
            absCosWh \in {HalfVectorCos(wo, wi)},
            J \in {QDiv(One, QMul(Q(4, 1), HalfVectorDot(wo, wi)))}})

Disney_BRDF_PDF(b, wo0, wi0) ==
    Disney_BRDF_PDF_Upper(b, IF wo0 < 0 THEN -wo0 ELSE wo0,
                          IF wo0 < 0 THEN -wi0 ELSE wi0)

Disney_PDF(b, wo, wi, mode, sampleFlags) == Disney_BRDF_PDF(b, wo, wi)

\* The branch of the chain of tests on uc: coatingTh = sr + cr,
\* diffuseTh = sr + cr + dr
Disney_Branch(uc, w) ==
    IF QLe(uc, w.sr) THEN "specular"
    ELSE IF QGt(uc, w.sr) /\ QLe(uc, QAdd(w.sr, w.cr)) THEN "coat"
    ELSE IF QGt(uc, QAdd(w.sr, w.cr))
            /\ QLe(uc, QAdd(QAdd(w.sr, w.cr), w.dr)) THEN "diffuse"
    ELSE "none"

\* The lobe chosen by uc against the thresholds sr, sr + cr, sr + cr + dr,
\* as the direction and the flags of its sample (flags Unset: no sample);
\* rv is the value the call's own RNG returns for r()
Disney_Choose(b, wo, uc, rv, w, wr, c) ==
    CASE Disney_Branch(uc, w) = "specular" ->
            IF ~SameHemisphere(wo, wr) THEN <<0, Unset>>
            ELSE <<wr, GlossyReflection>>
      [] Disney_Branch(uc, w) = "coat" ->
            IF ~SameHemisphere(wo, wr) THEN <<0, Unset>>
            ELSE <<wr, GlossyReflection>>
      [] Disney_Branch(uc, w) = "diffuse" ->
            IF QLe(rv, b.subsurface)
            THEN <<IF wo > 0 THEN -c ELSE c, DiffuseTransmission>>
            ELSE <<IF wo < 0 THEN -c ELSE c, DiffuseReflection>>
      [] OTHER -> <<0, Unset>>

\* The sample of the chosen lobe: value and density of the whole BRDF at wi,
\* and wi flipped back to the side of the caller's wo
Disney_Result(b, wo, flip, chosen) ==
    IF chosen[2] = Unset THEN NoSample
    ELSE BSDFSample(Disney_BRDF_F(b, wo, chosen[1]),
                    IF flip THEN -chosen[1] ELSE chosen[1],
                    Disney_BRDF_PDF(b, wo, chosen[1]), chosen[2])

Disney_Flipped(b, wo, uc, u, flip, rv) ==
    Disney_Result(b, wo, flip,
                  Disney_Choose(b, wo, uc, rv, ComputeWeights(b),
                                ReflectAboutSampledNormal(wo, u),
                                SampleCosineHemisphere(u)))

Disney_Sample_f(b, wo0, uc, u, mode, sampleFlags, rv) ==
    Disney_Flipped(b, IF wo0 < 0 THEN -wo0 ELSE wo0, uc, u, wo0 < 0, rv)

Disney_Flags(b) ==
    {"Reflection", "Specular", "Glossy", "Diffuse", "Transmission"}

\* ---- BxDF: dispatch to the active variant

BxDF_f(b, wo, wi, mode) ==
    CASE b.kind = "Diffuse" -> Diffuse_f(b, wo, wi, mode)
      [] b.kind = "DiffuseTransmission" ->
            DiffuseTransmission_f(b, wo, wi, mode)
      [] b.kind = "ThinDielectric" -> ThinDielectric_f(b, wo, wi, mode)
      [] b.kind = "Conductor" -> Conductor_f(b, wo, wi, mode)
      [] b.kind = "NormalizedFresnel" -> NormalizedFresnel_f(b, wo, wi, mode)
      [] b.kind = "Dielectric" -> Dielectric_f(b, wo, wi, mode)
      [] b.kind = "Disney" -> Disney_f(b, wo, wi, mode)

BxDF_Sample_f(b, wo, uc, u, mode, sampleFlags, rv) ==
    CASE b.kind = "Diffuse" -> Diffuse_Sample_f(b, wo, uc, u, mode, sampleFlags)
      [] b.kind = "DiffuseTransmission" ->
            DiffuseTransmission_Sample_f(b, wo, uc, u, mode, sampleFlags)
      [] b.kind = "ThinDielectric" ->
            ThinDielectric_Sample_f(b, wo, uc, u, mode, sampleFlags)
      [] b.kind = "Conductor" ->
            Conductor_Sample_f(b, wo, uc, u, mode, sampleFlags)
      [] b.kind = "NormalizedFresnel" ->
            NormalizedFresnel_Sample_f(b, wo, uc, u, mode, sampleFlags)
      [] b.kind = "Dielectric" ->
            Dielectric_Sample_f(b, wo, uc, u, mode, sampleFlags)
      [] b.kind = "Disney" ->
            Disney_Sample_f(b, wo, uc, u, mode, sampleFlags, rv)

BxDF_PDF(b, wo, wi, mode, sampleFlags) ==
    CASE b.kind = "Diffuse" -> Diffuse_PDF(b, wo, wi, mode, sampleFlags)
      [] b.kind = "DiffuseTransmission" ->
            DiffuseTransmission_PDF(b, wo, wi, mode, sampleFlags)
      [] b.kind = "ThinDielectric" ->
            ThinDielectric_PDF(b, wo, wi, mode, sampleFlags)
      [] b.kind = "Conductor" -> Conductor_PDF(b, wo, wi, mode, sampleFlags)
      [] b.kind = "NormalizedFresnel" ->
            NormalizedFresnel_PDF(b, wo, wi, mode, sampleFlags)
      [] b.kind = "Dielectric" -> Dielectric_PDF(b, wo, wi, mode, sampleFlags)
      [] b.kind = "Disney" -> Disney_PDF(b, wo, wi, mode, sampleFlags)

BxDF_Flags(b) ==
    CASE b.kind = "Diffuse" -> Diffuse_Flags(b)
      [] b.kind = "DiffuseTransmission" -> DiffuseTransmission_Flags(b)
      [] b.kind = "ThinDielectric" -> ThinDielectric_Flags(b)
      [] b.kind = "Conductor" -> Conductor_Flags(b)
      [] b.kind = "NormalizedFresnel" -> NormalizedFresnel_Flags(b)
      [] b.kind = "Dielectric" -> Dielectric_Flags(b)
      [] b.kind = "Disney" -> Disney_Flags(b)

\* ---- TopOrBottomBxDF
\* An object holds two references, top and bottom, each null or not; the
\* interface a non-null one refers to is the top or the bottom of the
\* LayeredBxDF.  The lobes that the layered instances stack are the
\* dielectric, diffuse, conductor, diffuse transmission and thin dielectric
\* ones.

\* TopOrBottomBxDF() = default
TopOrBottomBxDF_Default == [top |-> FALSE, bottom |-> FALSE]

\* operator=(const TopBxDF *t)
TopOrBottom_AssignTop(x) == [top |-> TRUE, bottom |-> FALSE]

\* operator=(const BottomBxDF *b) that leaves top as it was
TopOrBottom_AssignBottom_KeepTop(x) == [x EXCEPT !.bottom = TRUE]

\* operator=(const BottomBxDF *b)
TopOrBottom_AssignBottom(x) == [top |-> FALSE, bottom |-> TRUE]

\* Where a call through x goes, top ? top->... : bottom->...: to the bottom
\* reference when top is null, which is a null reference in an object that
\* was never assigned
TopOrBottom_Target(x) ==
    IF x.top THEN "top" ELSE IF x.bottom THEN "bottom" ELSE "null"

\* The TopOrBottomBxDF variables that f, Sample_f and PDF of LayeredBxDF
\* declare, before any assignment
NoInterfaces ==
    [enterInterface |-> TopOrBottomBxDF_Default,
     exitInterface |-> TopOrBottomBxDF_Default,
     nonExitInterface |-> TopOrBottomBxDF_Default,
     interface |-> TopOrBottomBxDF_Default,
     rInterface |-> TopOrBottomBxDF_Default,
     tInterface |-> TopOrBottomBxDF_Default,
     toInterface |-> TopOrBottomBxDF_Default,
     tiInterface |-> TopOrBottomBxDF_Default]

\* x = &top when isTop, x = &bottom otherwise
TopOrBottom_Assign(x, isTop) ==
    IF isTop THEN TopOrBottom_AssignTop(x) ELSE TopOrBottom_AssignBottom(x)

TopOrBottom(b, isTop) == IF isTop THEN b.top ELSE b.bottom

Layer_f(x, wo, wi, mode) ==
    CASE x.kind = "Dielectric" -> Dielectric_f(x, wo, wi, mode)
      [] x.kind = "Diffuse" -> Diffuse_f(x, wo, wi, mode)
      [] x.kind = "Conductor" -> Conductor_f(x, wo, wi, mode)
      [] x.kind = "DiffuseTransmission" ->
            DiffuseTransmission_f(x, wo, wi, mode)
      [] x.kind = "ThinDielectric" -> ThinDielectric_f(x, wo, wi, mode)

Layer_Sample_f(x, wo, uc, u, mode, sampleFlags) ==
    CASE x.kind = "Dielectric" ->
            Dielectric_Sample_f(x, wo, uc, u, mode, sampleFlags)
      [] x.kind = "Diffuse" ->
            Diffuse_Sample_f(x, wo, uc, u, mode, sampleFlags)
      [] x.kind = "Conductor" ->
            Conductor_Sample_f(x, wo, uc, u, mode, sampleFlags)
      [] x.kind = "DiffuseTransmission" ->
            DiffuseTransmission_Sample_f(x, wo, uc, u, mode, sampleFlags)
      [] x.kind = "ThinDielectric" ->
            ThinDielectric_Sample_f(x, wo, uc, u, mode, sampleFlags)

Layer_PDF(x, wo, wi, mode, sampleFlags) ==
    CASE x.kind = "Dielectric" -> Dielectric_PDF(x, wo, wi, mode, sampleFlags)
      [] x.kind = "Diffuse" -> Diffuse_PDF(x, wo, wi, mode, sampleFlags)
      [] x.kind = "Conductor" -> Conductor_PDF(x, wo, wi, mode, sampleFlags)
      [] x.kind = "DiffuseTransmission" ->
            DiffuseTransmission_PDF(x, wo, wi, mode, sampleFlags)
      [] x.kind = "ThinDielectric" ->
            ThinDielectric_PDF(x, wo, wi, mode, sampleFlags)

Layer_Flags(x) ==
    CASE x.kind = "Dielectric" -> Dielectric_Flags(x)
      [] x.kind = "Diffuse" -> Diffuse_Flags(x)
      [] x.kind = "Conductor" -> Conductor_Flags(x)
      [] x.kind = "DiffuseTransmission" -> DiffuseTransmission_Flags(x)
      [] x.kind = "ThinDielectric" -> ThinDielectric_Flags(x)

TopOrBottom_f(b, isTop, wo, wi, mode) ==
    Layer_f(TopOrBottom(b, isTop), wo, wi, mode)

TopOrBottom_Sample_f(b, isTop, wo, uc, u, mode, sampleFlags) ==
    Layer_Sample_f(TopOrBottom(b, isTop), wo, uc, u, mode, sampleFlags)

TopOrBottom_PDF(b, isTop, wo, wi, mode, sampleFlags) ==
    Layer_PDF(TopOrBottom(b, isTop), wo, wi, mode, sampleFlags)

TopOrBottom_Flags(b, isTop) == Layer_Flags(TopOrBottom(b, isTop))

\* ---- LayeredBxDF

\* std::numeric_limits<Float>::min()
FLT_MIN == Q(1, 1024)

\* The constructor storing the thickness it is given
LayeredBxDF_Unclamped(top, bottom, twoSided, thickness, albedo, g, maxDepth, nSamples) ==
    [kind |-> "Layered", top |-> top, bottom |-> bottom,
     twoSided |-> twoSided, thickness |-> thickness,
     g |-> g, albedo |-> albedo, maxDepth |-> maxDepth,
     nSamples |-> nSamples]

LayeredBxDF(top, bottom, twoSided, thickness, albedo, g, maxDepth, nSamples) ==
    [kind |-> "Layered", top |-> top, bottom |-> bottom,
     twoSided |-> twoSided, thickness |-> QMax(thickness, FLT_MIN),
     g |-> g, albedo |-> albedo, maxDepth |-> maxDepth,
     nSamples |-> nSamples]

\* The flags from those of the two interfaces
Layered_Flags_From(b, topFlags, bottomFlags) ==
    {"Reflection"} \cup
    (IF IsSpecular(topFlags) THEN {"Specular"} ELSE {}) \cup
    (IF IsDiffuse(topFlags) \/ IsDiffuse(bottomFlags) \/ SNonZero(b.albedo)
     THEN {"Diffuse"}
     ELSE IF IsGlossy(topFlags) \/ IsGlossy(bottomFlags) THEN {"Glossy"}
     ELSE {}) \cup
    (IF IsTransmissive(topFlags) /\ IsTransmissive(bottomFlags)
     THEN {"Transmission"} ELSE {})

Layered_Flags(b) ==
    Layered_Flags_From(b, Layer_Flags(b.top), Layer_Flags(b.bottom))

\* CHECK(IsTransmissive(topFlags) || IsTransmissive(bottomFlags)) in Flags()
Layered_Flags_Check(b) ==
    IsTransmissive(Layer_Flags(b.top)) \/ IsTransmissive(Layer_Flags(b.bottom))

\* mfDistrib.Regularize() of the dielectric and conductor lobes widens a
\* narrow distribution, so a smooth lobe is rough afterwards; the
\* Regularize() of the other lobes is empty.
Regularized(x) ==
    IF x.kind \in {"Dielectric", "Conductor"} THEN [x EXCEPT !.smooth = FALSE]
    ELSE x

\* top.Regularize(); bottom.Regularize()
Layered_Regularize(b) ==
    [b EXCEPT !.top = Regularized(b.top), !.bottom = Regularized(b.bottom)]

\* The scattering of a rough DielectricBxDF is defined outside bxdfs.h: the
\* calls of f, Sample_f and PDF are followed on the stacks whose dielectric
\* interfaces are smooth.
SmoothDielectrics(b) ==
    /\ b.top.kind = "Dielectric" => b.top.smooth
    /\ b.bottom.kind = "Dielectric" => b.bottom.smooth

Tr(dz, w) ==
    IF QLe(QAbs(dz), FLT_MIN) THEN One
    ELSE FastExpNeg(QAbs(QDiv(dz, CosTheta(w))))

Clamp(x, lo, hi) == IF QLt(x, lo) THEN lo ELSE IF QGt(x, hi) THEN hi ELSE x

\* !bs || !bs->f || bs->pdf == 0 || bs->wi.z == 0
Rejected(bs) ==
    ~bs.present \/ ~SNonZero(bs.f) \/ QEq(bs.pdf, Zero) \/ bs.wi = 0

\* The locals of the running LayeredBxDF method.
NoLocals ==
    [wo |-> 0, wi |-> 0, flipWi |-> FALSE, enteredTop |-> FALSE,
     exitTop |-> FALSE, exitZ |-> Zero, w |-> 0, specularPath |-> FALSE,
     f |-> SZero, pdf |-> Zero, z |-> Zero, depth |-> 0, s |-> 0,
     beta |-> SZero, wis |-> NoSample, pdfSum |-> Zero, inWalk |-> FALSE,
     interfaces |-> NoInterfaces]

\* ---- LayeredBxDF::Sample_f

\* The outcome of a part of Sample_f: how it went on, what kind of event the
\* step was, the sub-lobe or phase function sample it drew (if it drew one),
\* the value returned (if it returned one) and the locals.
Outcome(how, event, bs, ret, loc) ==
    [how |-> how, event |-> event, bs |-> bs, ret |-> ret, loc |-> loc]

\* A phase function sample, in the shape of a BSDFSample without flags
PhaseAsSample(ps) ==
    [present |-> ps.present, f |-> SConst(ps.p), wi |-> ps.wi,
     pdf |-> ps.pdf, flags |-> Unset, pdfIsProportional |-> FALSE]

\* EntranceReflection without "bs->pdfIsProportional = true"
EntranceReflection_AsSampled(bs, flipWi) ==
    [bs EXCEPT !.wi = IF flipWi THEN -bs.wi ELSE bs.wi]

\* The entrance sample is a reflection: it is returned at once.
EntranceReflection(bs, flipWi) ==
    [bs EXCEPT !.wi = IF flipWi THEN -bs.wi ELSE bs.wi,
               !.pdfIsProportional = TRUE]

\* What a step of the walk was: an interface sample, specular or not.
Event(bs) == IF IsSpecular(bs.flags) THEN "specular" ELSE "nonspecular"

\* From the entrance sample bs to the start of the loop
Layered_Sample_f_Entered(b, wo, flipWi, enteredTop, bs) ==
    IF Rejected(bs) THEN Outcome("failed", "none", bs, NoSample, NoLocals)
    ELSE IF IsReflective(bs.flags) THEN
        Outcome("reflection", Event(bs), bs, EntranceReflection(bs, flipWi),
                NoLocals)
    ELSE
        Outcome("walk", Event(bs), bs, NoSample,
                [NoLocals EXCEPT
                    !.wo = wo, !.flipWi = flipWi,
                    !.enteredTop = enteredTop, !.w = bs.wi,
                    !.specularPath = IsSpecular(bs.flags),
                    !.f = SScale(bs.f, AbsCosTheta(bs.wi)),
                    !.pdf = bs.pdf,
                    !.z = IF enteredTop THEN b.thickness ELSE Zero,
                    !.depth = 0])

\* After the flip of wo: the entrance interface and its sample
Layered_Sample_f_Flipped(b, wo, flipWi, uc, u, mode) ==
    Layered_Sample_f_Entered(
        b, wo, flipWi, b.twoSided \/ wo > 0,
        TopOrBottom_Sample_f(b, b.twoSided \/ wo > 0, wo, uc, u, mode, All))

\* Up to the loop: the outcome is "abort" (the CHECK fails), "failed",
\* "reflection" (ret is returned) or "walk" (loc holds the walk's state).
Layered_Sample_f_Enter(b, wo0, uc, u, mode, sampleFlags) ==
    IF sampleFlags # All
    THEN Outcome("abort", "none", NoSample, NoSample, NoLocals)
    ELSE Layered_Sample_f_Flipped(
             b, IF b.twoSided /\ wo0 < 0 THEN -wo0 ELSE wo0,
             b.twoSided /\ wo0 < 0, uc, u, mode)

\* ExitFlags that always marks the sample Glossy
ExitFlags_AlwaysGlossy(wo, w, specularPath) ==
    (IF SameHemisphere(wo, w) THEN {"Reflection"} ELSE {"Transmission"}) \cup
    {"Glossy"}

\* The flags of the sample that leaves the layers
ExitFlags(wo, w, specularPath) ==
    (IF SameHemisphere(wo, w) THEN {"Reflection"} ELSE {"Transmission"}) \cup
    (IF specularPath THEN {"Specular"} ELSE {"Glossy"})

\* BSDFSample(f, w, pdf, flags, 1.f, true), w flipped back first
ExitSample(f, w, pdf, flags, flipWi) ==
    [present |-> TRUE, f |-> f, wi |-> IF flipWi THEN -w ELSE w, pdf |-> pdf,
     flags |-> flags, pdfIsProportional |-> TRUE]

\* Layered_Sample_f_Sampled that returns the sample when the path is
\* reflected, not when it is transmitted
Layered_Sample_f_Sampled_ExitOnReflection(l, z, f, pdf, bs) ==
    IF Rejected(bs) THEN Outcome("failed", "none", bs, NoSample, l)
    ELSE IF IsReflective(bs.flags) THEN
        Outcome("exit", Event(bs), bs,
                [present |-> TRUE, f |-> SMul(f, bs.f),
                 wi |-> IF l.flipWi THEN -bs.wi ELSE bs.wi,
                 pdf |-> QMul(pdf, bs.pdf),
                 flags |-> {"Reflection", "Glossy"},
                 pdfIsProportional |-> TRUE],
                l)
    ELSE
        Outcome("continue", Event(bs), bs, NoSample,
                [l EXCEPT !.f = SScale(SMul(f, bs.f), AbsCosTheta(bs.wi)),
                          !.pdf = QMul(pdf, bs.pdf),
                          !.w = bs.wi, !.z = z, !.depth = l.depth + 1])

\* From the interface sample bs to the end of the iteration
Layered_Sample_f_Sampled(l, z, f, pdf, bs) ==
    IF Rejected(bs) THEN Outcome("failed", "none", bs, NoSample, l)
    ELSE IF IsTransmissive(bs.flags) THEN
        Outcome("exit", Event(bs), bs,
                ExitSample(SMul(f, bs.f), bs.wi, QMul(pdf, bs.pdf),
                           ExitFlags(l.wo, bs.wi,
                                     l.specularPath /\ IsSpecular(bs.flags)),
                           l.flipWi),
                l)
    ELSE
        Outcome("continue", Event(bs), bs, NoSample,
                [l EXCEPT !.f = SScale(SMul(f, bs.f), AbsCosTheta(bs.wi)),
                          !.pdf = QMul(pdf, bs.pdf),
                          !.specularPath =
                              l.specularPath /\ IsSpecular(bs.flags),
                          !.w = bs.wi, !.z = z, !.depth = l.depth + 1])

\* The interface part of an iteration, from the position z and the values
\* f and pdf that the medium part left.
Layered_Sample_f_Interface(b, l, z, f, pdf, mode, uc, u) ==
    Only({Layered_Sample_f_Sampled(
              [l EXCEPT !.interfaces.interface = interface], z, f, pdf,
              TopOrBottom_Sample_f(b, interface.top, -l.w, uc, u, mode,
                                   All)) :
            interface \in {TopOrBottom_Assign(TopOrBottomBxDF_Default,
                                              ~QEq(z, Zero))}})

\* Layered_Sample_f_Scatter whose "continue" does not advance depth
Layered_Sample_f_Scatter_SameDepth(b, l, pdf, zp, ps) ==
    IF ~ps.present \/ QEq(ps.pdf, Zero) \/ ps.wi = 0
    THEN Outcome("failed", "none", PhaseAsSample(ps), NoSample, l)
    ELSE Outcome("continue", "medium", PhaseAsSample(ps), NoSample,
                 [l EXCEPT !.f = SScale(SMul(l.f, b.albedo), ps.p),
                           !.pdf = QMul(pdf, ps.pdf),
                           !.specularPath = FALSE,
                           !.w = ps.wi, !.z = zp])

\* A scattering event between the interfaces, from the phase sample ps
Layered_Sample_f_Scatter(b, l, pdf, zp, ps) ==
    IF ~ps.present \/ QEq(ps.pdf, Zero) \/ ps.wi = 0
    THEN Outcome("failed", "none", PhaseAsSample(ps), NoSample, l)
    ELSE Outcome("continue", "medium", PhaseAsSample(ps), NoSample,
                 [l EXCEPT !.f = SScale(SMul(l.f, b.albedo), ps.p),
                           !.pdf = QMul(pdf, ps.pdf),
                           !.specularPath = FALSE,
                           !.w = ps.wi, !.z = zp, !.depth = l.depth + 1])

\* The medium part that takes the end of the flight as the height of the
\* interface
Layered_Sample_f_Medium_Unclamped(b, l, pdf, zp, mode, uc, u) ==
    IF QEq(zp, l.z) THEN Outcome("zeroflight", "none", NoSample, NoSample, l)
    ELSE IF QLt(Zero, zp) /\ QLt(zp, b.thickness)
    THEN Layered_Sample_f_Scatter(b, l, pdf, zp, Sample_p(-l.w, u))
    ELSE Layered_Sample_f_Interface(b, l, zp, l.f, pdf, mode, uc, u)

\* if (z == 0) DCHECK_LT(w.z, 0); else DCHECK_GT(w.z, 0);
Layered_Sample_f_DCheck(l, z) == IF QEq(z, Zero) THEN l.w < 0 ELSE l.w > 0

\* The medium part of an iteration with a medium, from the end zp of the
\* free flight, in a build that has the debug checks
Layered_Sample_f_Medium(b, l, pdf, zp, mode, uc, u) ==
    IF QEq(zp, l.z) THEN Outcome("zeroflight", "none", NoSample, NoSample, l)
    ELSE IF QLt(Zero, zp) /\ QLt(zp, b.thickness)
    THEN Layered_Sample_f_Scatter(b, l, pdf, zp, Sample_p(-l.w, u))
    ELSE IF ~Layered_Sample_f_DCheck(l, Clamp(zp, Zero, b.thickness))
    THEN Outcome("dcheck", "none", NoSample, NoSample, l)
    ELSE Layered_Sample_f_Interface(b, l, Clamp(zp, Zero, b.thickness), l.f,
                                    pdf, mode, uc, u)

\* The free flight that goes upwards whatever the direction
FreeFlight_Upwards(l, rdz) ==
    Only({QAdd(l.z, dz) :
            dz \in {SampleExponential(rdz, QDiv(One, AbsCosTheta(l.w)))}})

\* The free flight: z + dz upwards, z - dz downwards
FreeFlight(l, rdz) ==
    Only({IF l.w > 0 THEN QAdd(l.z, dz) ELSE QSub(l.z, dz) :
            dz \in {SampleExponential(rdz, QDiv(One, AbsCosTheta(l.w)))}})

\* An iteration after the Russian roulette, with the pdf it left
Layered_Sample_f_Advance(b, l, pdf, mode, rdz, uc, u) ==
    IF l.w = 0 THEN Outcome("grazing", "none", NoSample, NoSample, l)
    ELSE IF SNonZero(b.albedo)
    THEN Layered_Sample_f_Medium(b, l, pdf, FreeFlight(l, rdz), mode, uc, u)
    ELSE Layered_Sample_f_Interface(
             b, l, IF QEq(l.z, b.thickness) THEN Zero ELSE b.thickness,
             SScale(l.f, Tr(b.thickness, l.w)), pdf, mode, uc, u)

\* The Russian roulette with rrBeta = f.MaxComponentValue() / pdf and
\* q = max(0, 1 - rrBeta): the walk ends when r() < q, and goes on with
\* pdf * (1 - q) otherwise.
Layered_Sample_f_Roulette(b, l, rrBeta, mode, rr, rdz, uc, u) ==
    IF /\ l.depth > 3 /\ QLt(rrBeta, Q(1, 4))
       /\ QLt(rr, QMax(Zero, QSub(One, rrBeta)))
    THEN Outcome("roulette", "none", NoSample, NoSample, l)
    ELSE Layered_Sample_f_Advance(
             b, l,
             IF l.depth > 3 /\ QLt(rrBeta, Q(1, 4))
             THEN QMul(l.pdf, QSub(One, QMax(Zero, QSub(One, rrBeta))))
             ELSE l.pdf,
             mode, rdz, uc, u)

\* One iteration of the loop.  rr, rdz are the values r() returns for the
\* Russian roulette and the free flight, uc and u those for the phase
\* function or interface sample.
Layered_Sample_f_Iter(b, l, mode, rr, rdz, uc, u) ==
    Layered_Sample_f_Roulette(b, l, QDiv(MaxComponentValue(l.f), l.pdf),
                              mode, rr, rdz, uc, u)

\* ---- LayeredBxDF::f

\* A product of scalar factors times a spectrum
RECURSIVE QProd(_, _)
QProd(factors, i) ==
    IF i > Len(factors) THEN One
    ELSE QMul(factors[i], QProd(factors, i + 1))

SProd(sp, factors) == SScale(sp, QProd(factors, 1))

\* After the flip of wo and wi: the interfaces, exitZ and the entrance
\* reflection term
Layered_f_Flipped(b, wo, wi, enteredTop, exitBottom, mode) ==
    [NoLocals EXCEPT
        !.wo = wo, !.wi = wi, !.enteredTop = enteredTop,
        !.exitTop = ~exitBottom,
        !.exitZ = IF exitBottom THEN Zero ELSE b.thickness,
        !.interfaces =
            [NoInterfaces EXCEPT
                !.enterInterface = TopOrBottom_Assign(@, enteredTop),
                !.exitInterface = TopOrBottom_Assign(@, ~exitBottom),
                !.nonExitInterface = TopOrBottom_Assign(@, exitBottom)],
        !.f = IF SameHemisphere(wo, wi)
              THEN SScale(TopOrBottom_f(b, enteredTop, wo, wi, mode),
                          Q(b.nSamples, 1))
              ELSE SZero,
        !.s = 0]

\* The exit interface always the one across the slab from the entrance
Layered_f_Enter_ExitAcross(b, wo0, wi0, mode) ==
    Only({Layered_f_Flipped(
              b, wo, wi, b.twoSided \/ wo > 0, b.twoSided \/ wo > 0, mode) :
            wo \in {IF b.twoSided /\ wo0 < 0 THEN -wo0 ELSE wo0},
            wi \in {IF b.twoSided /\ wo0 < 0 THEN -wi0 ELSE wi0}})

\* Up to the loop over the samples
Layered_f_Enter(b, wo0, wi0, mode) ==
    Only({Layered_f_Flipped(
              b, wo, wi, b.twoSided \/ wo > 0,
              SameHemisphere(wo, wi) # (b.twoSided \/ wo > 0), mode) :
            wo \in {IF b.twoSided /\ wo0 < 0 THEN -wo0 ELSE wo0},
            wi \in {IF b.twoSided /\ wo0 < 0 THEN -wi0 ELSE wi0}})

\* From the two transmission samples to the start of the walk
Layered_f_Sampled(b, l, wos, wis) ==
    IF Rejected(wos) \/ Rejected(wis) THEN [l EXCEPT !.s = l.s + 1]
    ELSE [l EXCEPT
            !.wis = wis,
            !.beta = SDiv(SScale(wos.f, AbsCosTheta(wos.wi)), wos.pdf),
            !.z = IF l.enteredTop THEN b.thickness ELSE Zero,
            !.w = wos.wi, !.depth = 0, !.inWalk = TRUE]

\* The start of the body of the loop over s: the two transmission samples;
\* a rejected one skips to the next s.
Layered_f_Trial(b, l, mode, uc1, u1, uc2, u2) ==
    Layered_f_Sampled(
        b, l,
        TopOrBottom_Sample_f(b, l.enteredTop, l.wo, uc1, u1, mode, TransOnly),
        TopOrBottom_Sample_f(b, l.exitTop, l.wi, uc2, u2, NotMode(mode),
                             TransOnly))

\* break: on to the next s
Layered_f_Break(l) == [l EXCEPT !.inWalk = FALSE, !.s = l.s + 1]

\* Reflection at exitInterface, from its sample bs
Layered_f_ExitReflect(l, z, beta, bs) ==
    IF Rejected(bs) THEN Layered_f_Break(l)
    ELSE [l EXCEPT
            !.z = z,
            !.beta = SDiv(SScale(SMul(beta, bs.f), AbsCosTheta(bs.wi)),
                          bs.pdf),
            !.w = bs.wi, !.depth = l.depth + 1]

\* The contribution along wis left out when either interface is specular
Layered_f_NEEPresampled_EitherSpecular(b, l, beta, mode, wis) ==
    IF \/ IsSpecular(TopOrBottom_Flags(b, ~l.exitTop))
       \/ IsSpecular(TopOrBottom_Flags(b, l.exitTop))
    THEN l.f
    ELSE SAdd(l.f,
              SProd(SMul(SMul(beta,
                              TopOrBottom_f(b, ~l.exitTop, -l.w, -wis.wi,
                                            mode)),
                         wis.f),
                    <<AbsCosTheta(wis.wi),
                      PowerHeuristic(
                          1, wis.pdf, 1,
                          TopOrBottom_PDF(b, ~l.exitTop, -l.w, -wis.wi,
                                          mode, All)),
                      Tr(b.thickness, wis.wi),
                      QInv(wis.pdf)>>))

\* f after the NEE contribution along the presampled wis direction at
\* nonExitInterface
Layered_f_NEEPresampled(b, l, beta, mode, wis) ==
    IF IsSpecular(TopOrBottom_Flags(b, ~l.exitTop)) THEN l.f
    ELSE SAdd(l.f,
              SProd(SMul(SMul(beta,
                              TopOrBottom_f(b, ~l.exitTop, -l.w, -wis.wi,
                                            mode)),
                         wis.f),
                    <<AbsCosTheta(wis.wi),
                      IF IsSpecular(TopOrBottom_Flags(b, l.exitTop)) THEN One
                      ELSE PowerHeuristic(
                               1, wis.pdf, 1,
                               TopOrBottom_PDF(b, ~l.exitTop, -l.w, -wis.wi,
                                               mode, All)),
                      Tr(b.thickness, wis.wi),
                      QInv(wis.pdf)>>))

\* f after the NEE contribution along the direction of the sample bs
Layered_f_NEESampled(b, l, mode, f1, bs, beta2, fExit) ==
    IF ~IsSpecular(TopOrBottom_Flags(b, l.exitTop)) /\ SNonZero(fExit)
    THEN SAdd(f1,
              SProd(SMul(beta2, fExit),
                    <<Tr(b.thickness, bs.wi),
                      IF IsSpecular(TopOrBottom_Flags(b, ~l.exitTop)) THEN One
                      ELSE PowerHeuristic(
                               1, bs.pdf, 1,
                               TopOrBottom_PDF(b, l.exitTop, -bs.wi, l.wi,
                                               mode, TransOnly))>>))
    ELSE f1

\* Scattering at nonExitInterface, from f1 (f with the presampled
\* contribution) and the interface's sample bs
Layered_f_NonExit(b, l, z, beta, mode, f1, bs) ==
    IF Rejected(bs) THEN [Layered_f_Break(l) EXCEPT !.f = f1]
    ELSE Only({[l EXCEPT
                  !.z = z,
                  !.f = Layered_f_NEESampled(
                            b, l, mode, f1, bs, beta2,
                            TopOrBottom_f(b, l.exitTop, -bs.wi, l.wi, mode)),
                  !.beta = beta2, !.w = bs.wi, !.depth = l.depth + 1] :
                 beta2 \in {SDiv(SScale(SMul(beta, bs.f),
                                        AbsCosTheta(bs.wi)),
                                 bs.pdf)}})

\* The interface part of an iteration of the walk, from the position z and
\* the throughput beta that the medium part left.
Layered_f_Interface(b, l, z, beta, mode, uc, u) ==
    IF QEq(z, l.exitZ) THEN
        Layered_f_ExitReflect(
            l, z, beta,
            TopOrBottom_Sample_f(b, l.exitTop, -l.w, uc, u, mode, ReflOnly))
    ELSE
        Layered_f_NonExit(
            b, l, z, beta, mode,
            Layered_f_NEEPresampled(b, l, beta, mode, l.wis),
            TopOrBottom_Sample_f(b, ~l.exitTop, -l.w, uc, u, mode, ReflOnly))

\* f after the contribution of a scattering event through exitInterface
\* along wis
Layered_f_ScatterPresampled(b, l, zp, beta, wis) ==
    SAdd(l.f,
         SProd(SMul(SMul(beta, b.albedo), wis.f),
               <<PhaseP(-l.w, -wis.wi),
                 IF IsSpecular(TopOrBottom_Flags(b, l.exitTop)) THEN One
                 ELSE PowerHeuristic(1, wis.pdf, 1, PhasePDF(-l.w, -wis.wi)),
                 Tr(QSub(zp, l.exitZ), wis.wi),
                 QInv(wis.pdf)>>))

\* f after the contribution through exitInterface along the phase
\* function's direction
Layered_f_ScatterSampled(b, l, zp, mode, f1, ps, beta2, fExit) ==
    IF /\ \/ QLt(zp, l.exitZ) /\ ps.wi > 0
          \/ QGt(zp, l.exitZ) /\ ps.wi < 0
       /\ ~IsSpecular(TopOrBottom_Flags(b, l.exitTop))
       /\ SNonZero(fExit)
    THEN SAdd(f1,
              SProd(SMul(beta2, fExit),
                    <<Tr(QSub(zp, l.exitZ), ps.wi),
                      PowerHeuristic(
                          1, ps.pdf, 1,
                          TopOrBottom_PDF(b, l.exitTop, -ps.wi, l.wi, mode,
                                          TransOnly))>>))
    ELSE f1

\* The phase function sample ps and what follows it
Layered_f_Scattered(b, l, zp, beta, mode, f1, ps) ==
    IF ~ps.present \/ QEq(ps.pdf, Zero) \/ ps.wi = 0
    THEN [l EXCEPT !.f = f1, !.beta = beta, !.depth = l.depth + 1]
    ELSE Only({[l EXCEPT
                  !.f = Layered_f_ScatterSampled(
                            b, l, zp, mode, f1, ps, beta2,
                            TopOrBottom_f(b, l.exitTop, -ps.wi, l.wi, mode)),
                  !.beta = beta2, !.w = ps.wi, !.z = zp,
                  !.depth = l.depth + 1] :
                 beta2 \in {SDiv(SScale(SMul(beta, b.albedo), ps.p),
                                 ps.pdf)}})

\* A scattering event in the medium at height zp: the NEE contribution
\* through exitInterface along wis, the phase function sample, and the
\* contribution through exitInterface along the sampled direction.
Layered_f_Scatter(b, l, zp, beta, mode, u) ==
    Layered_f_Scattered(b, l, zp, beta, mode,
                        Layered_f_ScatterPresampled(b, l, zp, beta, l.wis),
                        Sample_p(-l.w, u))

\* The medium part of an iteration with a medium, from the end zp of the
\* free flight
Layered_f_Medium(b, l, zp, beta, mode, uc, u) ==
    IF QEq(l.z, zp) THEN [l EXCEPT !.beta = beta, !.depth = l.depth + 1]
    ELSE IF QLt(Zero, zp) /\ QLt(zp, b.thickness)
    THEN Layered_f_Scatter(b, l, zp, beta, mode, u)
    ELSE Layered_f_Interface(b, l, Clamp(zp, Zero, b.thickness), beta, mode,
                             uc, u)

\* An iteration after the Russian roulette, with the beta it left
Layered_f_Advance(b, l, beta, mode, rdz, uc, u) ==
    IF ~SNonZero(b.albedo) THEN
        Layered_f_Interface(
            b, l, IF QEq(l.z, b.thickness) THEN Zero ELSE b.thickness,
            SScale(beta, Tr(b.thickness, l.w)), mode, uc, u)
    ELSE Layered_f_Medium(b, l, FreeFlight(l, rdz), beta, mode, uc, u)

\* The roulette without the division of the survivor's beta
Layered_f_Roulette_Unscaled(b, l, bmax, mode, rr, rdz, uc, u) ==
    IF /\ l.depth > 3 /\ QLt(bmax, Q(1, 4))
       /\ QLt(rr, QMax(Zero, QSub(One, bmax)))
    THEN Layered_f_Break(l)
    ELSE Layered_f_Advance(b, l, l.beta, mode, rdz, uc, u)

\* The Russian roulette with bmax = beta.MaxComponentValue() and
\* q = max(0, 1 - bmax): the walk ends when r() < q, and goes on with
\* beta / (1 - q) otherwise.
Layered_f_Roulette(b, l, bmax, mode, rr, rdz, uc, u) ==
    IF /\ l.depth > 3 /\ QLt(bmax, Q(1, 4))
       /\ QLt(rr, QMax(Zero, QSub(One, bmax)))
    THEN Layered_f_Break(l)
    ELSE Layered_f_Advance(
             b, l,
             IF l.depth > 3 /\ QLt(bmax, Q(1, 4))
             THEN SDiv(l.beta, QSub(One, QMax(Zero, QSub(One, bmax))))
             ELSE l.beta,
             mode, rdz, uc, u)

\* One iteration of the loop over depth.  rr, rdz are the values r() returns
\* for the Russian roulette and the free flight, uc and u those for the
\* phase function or interface sample.
Layered_f_Iter(b, l, mode, rr, rdz, uc, u) ==
    Layered_f_Roulette(b, l, MaxComponentValue(l.beta), mode, rr, rdz, uc, u)

\* ---- LayeredBxDF::PDF

\* bs && bs->f && bs->pdf > 0
Usable(bs) == bs.present /\ SNonZero(bs.f) /\ QGt(bs.pdf, Zero)

\* After the flip of wo and wi: the entrance reflection term
Layered_PDF_Flipped(b, wo, wi, enteredTop, mode) ==
    [NoLocals EXCEPT
        !.wo = wo, !.wi = wi, !.enteredTop = enteredTop,
        !.pdfSum = IF SameHemisphere(wo, wi)
                   THEN QMul(Q(b.nSamples, 1),
                             TopOrBottom_PDF(b, enteredTop, wo, wi, mode,
                                             ReflOnly))
                   ELSE Zero,
        !.s = 0]

\* Up to the loop
Layered_PDF_Enter(b, wo0, wi0, mode) ==
    Only({Layered_PDF_Flipped(b, wo, wi, b.twoSided \/ wo > 0, mode) :
            wo \in {IF b.twoSided /\ wo0 < 0 THEN -wo0 ELSE wo0},
            wi \in {IF b.twoSided /\ wo0 < 0 THEN -wi0 ELSE wi0}})

\* The multiple importance sampling estimate of the TRT term
Layered_PDF_TRT_MIS(wis, rs, rPDF, tPDF) ==
    QAdd(QMul(PowerHeuristic(1, wis.pdf, 1, rPDF), rPDF),
         QMul(PowerHeuristic(1, rs.pdf, 1, tPDF), tPDF))

\* The TRT term with a non-specular tInterface, from the sample rs of
\* rInterface
Layered_PDF_TRT_Reflected(b, l, mode, wos, wis, rs) ==
    IF ~Usable(rs) THEN Zero
    ELSE IF ~IsNonSpecular(TopOrBottom_Flags(b, ~l.enteredTop))
    THEN TopOrBottom_PDF(b, l.enteredTop, -rs.wi, l.wi, mode, All)
    ELSE Layered_PDF_TRT_MIS(
             wis, rs,
             TopOrBottom_PDF(b, ~l.enteredTop, -wos.wi, -wis.wi, mode, All),
             TopOrBottom_PDF(b, l.enteredTop, -rs.wi, l.wi, mode, All))

\* The TRT term from the two samples of tInterface
Layered_PDF_TRT_Sampled(b, l, mode, wos, wis, uc3, u3) ==
    IF ~(Usable(wos) /\ Usable(wis)) THEN Zero
    ELSE IF ~IsNonSpecular(TopOrBottom_Flags(b, l.enteredTop))
    THEN TopOrBottom_PDF(b, ~l.enteredTop, -wos.wi, -wis.wi, mode, All)
    ELSE Layered_PDF_TRT_Reflected(
             b, l, mode, wos, wis,
             TopOrBottom_Sample_f(b, ~l.enteredTop, -wos.wi, uc3, u3, mode,
                                  All))

\* The TRT term: what one trial adds to pdfSum; tInterface is the entrance
\* interface, rInterface the other one
Layered_PDF_TRT(b, l, mode, uc1, u1, uc2, u2, uc3, u3) ==
    Layered_PDF_TRT_Sampled(
        b, l, mode,
        TopOrBottom_Sample_f(b, l.enteredTop, l.wo, uc1, u1, mode, TransOnly),
        TopOrBottom_Sample_f(b, l.enteredTop, l.wi, uc2, u2, NotMode(mode),
                             TransOnly),
        uc3, u3)

\* The TT term from the samples of toInterface and tiInterface
Layered_PDF_TT_Sampled(b, l, mode, wos, wis) ==
    IF Rejected(wos) \/ IsReflective(wos.flags) THEN Zero
    ELSE IF Rejected(wis) \/ IsReflective(wis.flags) THEN Zero
    ELSE IF IsSpecular(TopOrBottom_Flags(b, l.enteredTop))
    THEN TopOrBottom_PDF(b, ~l.enteredTop, -wos.wi, l.wi, mode, All)
    ELSE IF IsSpecular(TopOrBottom_Flags(b, ~l.enteredTop))
    THEN TopOrBottom_PDF(b, l.enteredTop, l.wo, -wis.wi, mode, All)
    ELSE QDiv(QAdd(TopOrBottom_PDF(b, l.enteredTop, l.wo, -wis.wi, mode, All),
                   TopOrBottom_PDF(b, ~l.enteredTop, -wos.wi, l.wi, mode,
                                   All)),
              Q(2, 1))

\* The TT term: what one trial adds to pdfSum; toInterface is the entrance
\* interface, tiInterface the other one
Layered_PDF_TT(b, l, mode, uc1, u1, uc2, u2) ==
    Layered_PDF_TT_Sampled(
        b, l, mode,
        TopOrBottom_Sample_f(b, l.enteredTop, l.wo, uc1, u1, mode, All),
        TopOrBottom_Sample_f(b, ~l.enteredTop, l.wi, uc2, u2, NotMode(mode),
                             All))

\* The body of the loop over s
Layered_PDF_Trial(b, l, mode, uc1, u1, uc2, u2, uc3, u3) ==
    [l EXCEPT
        !.pdfSum = QAdd(l.pdfSum,
                        IF SameHemisphere(l.wo, l.wi)
                        THEN Layered_PDF_TRT(b, l, mode, uc1, u1, uc2, u2,
                                             uc3, u3)
                        ELSE Layered_PDF_TT(b, l, mode, uc1, u1, uc2, u2)),
        !.interfaces =
            IF SameHemisphere(l.wo, l.wi)
            THEN [NoInterfaces EXCEPT
                     !.rInterface = TopOrBottom_Assign(@, ~l.enteredTop),
                     !.tInterface = TopOrBottom_Assign(@, l.enteredTop)]
            ELSE [NoInterfaces EXCEPT
                     !.toInterface = TopOrBottom_Assign(@, l.enteredTop),
                     !.tiInterface = TopOrBottom_Assign(@, ~l.enteredTop)],
        !.s = l.s + 1]

\* Lerp(0.9f, 1 / (4 * Pi), pdfSum / nSamples)
Layered_PDF_Result(b, pdfSum) ==
    Lerp(Q(9, 10), QDiv(One, QMul(Q(4, 1), Pi)),
         QDiv(pdfSum, Q(b.nSamples, 1)))

\* ---------------------------------------------------------------- State

VARIABLES
    bxdf,   \* the instance the calls are made on
    pc,     \* "idle", the running method's loop, "done" or "abort"
    call,   \* the arguments of the running or finished call
    ret,    \* what the finished call returned
    loc,    \* the locals of the running LayeredBxDF method
    hist,   \* history of the running call: iterations and trials made,
            \* whether every interface sample was specular, whether the
            \* medium scattered, how the last step ended, the sample it
            \* drew, and whether the walk of Sample_f was entered
    rng,    \* the generator of the running call
    memo    \* an earlier call of the program and what it returned

vars == <<bxdf, pc, call, ret, loc, hist, rng, memo>>

gen == <<rng, memo>>

\* Largest maxDepth and nSamples of the instances
MaxDepth == 5

MaxSamples == 2

\* The values a uniform draw takes: 0, the middle, and the largest value
\* r() returns.
RDraws == {Zero, Q(1, 2), OneMinusEpsilon}

\* The two ends of the range of a generator that is not clamped
EndDraws_Unclamped == {Zero, One}

\* The two ends of that range, for the draws the walks only compare with a
\* threshold
EndDraws == {Zero, OneMinusEpsilon}

\* Points of the unit square: a corner, the centre, and a point between:
\* SampleCosineHemisphere maps them to the horizon, the pole and the
\* direction between.
U3 == {<<Zero, Zero>>, <<Q(1, 2), Q(1, 2)>>, <<Q(1, 4), Q(1, 2)>>}

\* The same with a point on the other side of u.x = 1/2, which the phase
\* function maps to the other hemisphere.
U2 == U3 \cup {<<OneMinusEpsilon, Q(1, 2)>>}

\* ---- The generator that a call declares
\* Where the values of r() are left open, rng is FreeRNG and does not change.
\* Where the generator is followed, rng holds the seed of the program
\* (GetOptions().seed), the sampling arguments of the call, and the state n
\* of the generator.
FreeRNG == [seeded |-> FALSE, seed |-> 0, args |-> <<>>, n |-> 0]

\* Hash() of a sequence of integers
RECURSIVE Hash(_)
Hash(s) ==
    IF s = <<>> THEN 1 ELSE (5 * Hash(Tail(s)) + Head(s) + 35) % 16

\* A generator that outlives the call: it goes on from the state it is in
NewRNG_Continued(old, seed, a, b) == old

\* RNG rng(Hash(GetOptions().seed, a), Hash(b)): the generator is a local of
\* the call, its state is set from the seed and the arguments alone.
NewRNG(old, seed, a, b) ==
    IF old.seeded
    THEN [old EXCEPT !.n = (Hash(<<seed, a>>) + 7 * Hash(b)) % 16]
    ELSE old

\* The state of the generator after k values were taken from it
RECURSIVE RngAfter(_, _)
RngAfter(n, k) == IF k = 0 THEN n ELSE RngAfter((5 * n + 3) % 16, k - 1)

RECURSIVE Ordered(_)
Ordered(S) ==
    IF S = {} THEN <<>>
    ELSE LET x == CHOOSE y \in S : TRUE IN <<x>> \o Ordered(S \ {x})

\* The value of draws that the generator in state n gives
Pick(draws, n) == Ordered(draws)[((n \div 2) % Cardinality(draws)) + 1]

\* The i-th value r() returns in a step, as one of draws
Drawn(draws, i) ==
    IF rng.seeded THEN {Pick(draws, RngAfter(rng.n, i))} ELSE draws

\* The generator after the k values of a step
Used(k) == IF rng.seeded THEN [rng EXCEPT !.n = RngAfter(rng.n, k)] ELSE rng

\* The generator g of a call with the sampling arguments args
Called(g, args) == IF g.seeded THEN [g EXCEPT !.args = args] ELSE g

\* The arguments of the calls: all of them, or a few where the generator is
\* followed
ArgsOf(all, few) == IF rng.seeded THEN few ELSE all

SeededDirs == {-1, 2}

\* wo after if (twoSided && wo.z < 0) wo = -wo
FlippedWo(twoSided, wo) == IF twoSided /\ wo < 0 THEN -wo ELSE wo

\* The draws that the Sample_f of the lobe x reads: the diffuse and the
\* conductor lobes do not read uc, the specular ones do not read u.
UcDraws(x) ==
    IF x.kind \in {"Diffuse", "Conductor"} THEN {Zero} ELSE EndDraws

UDraws(x) ==
    IF x.kind \in {"Dielectric", "ThinDielectric"}
       \/ (x.kind = "Conductor" /\ x.smooth)
    THEN {<<Zero, Zero>>}
    ELSE U3

\* The draws that a step of a walk in the layers of b reads: those of the
\* interface it reaches or, with a medium, those of the phase function.
StepUcDraws(b) == UcDraws(b.top) \cup UcDraws(b.bottom)

StepUDraws(b) ==
    IF SNonZero(b.albedo) THEN U2 ELSE UDraws(b.top) \cup UDraws(b.bottom)

Half == SConst(Q(1, 2))

SimpleLobes ==
    {DiffuseBxDF(Half), DiffuseBxDF(SZero),
     DiffuseTransmissionBxDF(Half, SConst(Q(1, 4))),
     DiffuseTransmissionBxDF(SZero, Half),
     ThinDielectricBxDF(Q(3, 2)), ThinDielectricBxDF(One),
     ConductorBxDF(TRUE, Half), ConductorBxDF(FALSE, Half),
     NormalizedFresnelBxDF(Q(3, 2))}

DisneyLobes ==
    {DisneyBxDF(Half, m, c, ss) :
        m \in {Zero, One}, c \in {Zero, One}, ss \in {Zero, Q(1, 2)}}
    \cup {DisneyBxDF(Half, Zero, Zero, One)}

\* <<maxDepth, nSamples>> of the layered instances: the deep walks are made
\* on the stack without a medium, the shallow ones on every stack.
DeepConfigs == {<<0, MaxSamples>>, <<MaxDepth, 1>>}

ShallowConfigs == {<<0, 0>>, <<2, MaxSamples>>}

\* top, bottom, twoSided, thickness, albedo of the layered instances:
\* coated diffuse, coated conductor with a medium, and two generic stacks.
CoatedDiffuseStack ==
    <<DielectricBxDF(Q(3, 2)), DiffuseBxDF(Half), TRUE, One, SZero>>

CoatedConductorStack ==
    <<DielectricBxDF(Q(3, 2)), ConductorBxDF(TRUE, Half), TRUE, Q(2, 1),
      Half>>

GenericStacks ==
    {<<DiffuseTransmissionBxDF(Half, Half),
       DiffuseTransmissionBxDF(Half, Half), FALSE, Zero, SZero>>,
     <<ThinDielectricBxDF(Q(3, 2)), ThinDielectricBxDF(Q(3, 2)), FALSE, One,
       SZero>>}

\* A thin slab whose two diffuse interfaces absorb nothing: the throughput
\* of a deep walk stays high
BrightStack ==
    <<DiffuseTransmissionBxDF(SConst(One), SConst(One)),
      DiffuseBxDF(SConst(One)), TRUE, Q(1, 3), SZero>>

\* The same slab with interfaces that reflect different wavelengths: after a
\* reflection by each the throughput is zero in every component
TwoColourStack ==
    <<DiffuseTransmissionBxDF(Spectrum(One, Zero), SConst(One)),
      DiffuseBxDF(Spectrum(Zero, One)), TRUE, Q(1, 3), SZero>>

\* The smallest maxDepth whose walk reaches a roulette test: the test needs
\* depth > 3 and the walk runs depth = 0 .. maxDepth - 1
RouletteDepth == 5

\* Two interfaces that only reflect, constructed with a negative thickness
OpaqueStack ==
    <<DiffuseBxDF(Half), DiffuseBxDF(Half), TRUE, QNeg(One), SZero>>

LayeredInstances ==
    {LayeredBxDF(st[1], st[2], st[3], st[4], st[5], Zero, c[1], c[2]) :
        st \in {CoatedDiffuseStack}, c \in DeepConfigs \cup ShallowConfigs}
    \cup
    {LayeredBxDF(st[1], st[2], st[3], st[4], st[5], Zero, c[1], c[2]) :
        st \in GenericStacks \cup {CoatedConductorStack},
        c \in ShallowConfigs}
    \cup
    {LayeredBxDF(st[1], st[2], st[3], st[4], st[5], Zero, c[1], c[2]) :
        st \in {OpaqueStack}, c \in {<<2, MaxSamples>>}}

\* The instances whose walks are followed on their own: the deep walks, and
\* the walk through a medium
WalkInstances ==
    {LayeredBxDF(st[1], st[2], st[3], st[4], st[5], Zero, c[1], c[2]) :
        st \in {BrightStack, TwoColourStack}, c \in {<<RouletteDepth, 1>>}}
    \cup
    {LayeredBxDF(st[1], st[2], st[3], st[4], st[5], Zero, c[1], c[2]) :
        st \in {CoatedDiffuseStack}, c \in {<<MaxDepth, 1>>}}
    \cup
    {LayeredBxDF(st[1], st[2], st[3], st[4], st[5], Zero, c[1], c[2]) :
        st \in {CoatedConductorStack}, c \in {<<2, MaxSamples>>}}

NoCall ==
    [op |-> "none", wo |-> 0, wi |-> 0, mode |-> "Radiance",
     sampleFlags |-> All]

NoRet == [sample |-> NoSample, f |-> SZero, pdf |-> Zero, flags |-> Unset]

NoMemo == [call |-> NoCall, args |-> <<>>, ret |-> NoRet, other |-> FALSE]

NoHist ==
    [iters |-> 0, trials |-> 0, allSpecular |-> TRUE, scattered |-> FALSE,
     how |-> "none", last |-> NoSample, entered |-> FALSE,
     assigned |-> <<>>]

Init ==
    /\ bxdf \in SimpleLobes \cup DisneyLobes \cup LayeredInstances
    /\ pc = "idle"
    /\ call = NoCall
    /\ ret = NoRet
    /\ loc = NoLocals
    /\ hist = NoHist
    /\ rng = FreeRNG
    /\ memo = NoMemo

IsLayered == bxdf.kind = "Layered"

\* ------------------------------------------------- LayeredBxDF::Sample_f

\* The values of a draw that is made only under a condition
DrawsIf(cond, draws) == IF cond THEN draws ELSE {Zero}

\* The history after a step of the walk
Record(h, res) ==
    [h EXCEPT !.allSpecular = h.allSpecular /\ res.event # "nonspecular",
              !.scattered = h.scattered \/ res.event = "medium",
              !.how = res.how, !.last = res.bs,
              !.entered = h.entered \/ res.how = "walk"]

Layered_Sample_f_Call ==
    /\ pc = "idle" /\ IsLayered /\ SmoothDielectrics(bxdf)
    /\ \E wo \in ArgsOf(Dirs, SeededDirs), uc \in RDraws, u \in U3,
          mode \in ArgsOf(Modes, {"Radiance"}),
          sampleFlags \in ArgsOf(ReflTransFlags, {All}) :
          \E res \in {Layered_Sample_f_Enter(bxdf, wo, uc, u, mode,
                                             sampleFlags)} :
              /\ rng' = Called(IF res.how = "walk"
                               THEN NewRNG(rng, rng.seed,
                                           FlippedWo(bxdf.twoSided, wo),
                                           uc \o u[1] \o u[2])
                               ELSE rng,
                               uc \o u[1] \o u[2])
              /\ call' = [op |-> "Sample_f", wo |-> wo, wi |-> 0,
                          mode |-> mode, sampleFlags |-> sampleFlags]
              /\ pc' = CASE res.how = "abort" -> "abort"
                         [] res.how = "walk" -> "Sample_f"
                         [] OTHER -> "done"
              /\ ret' = [NoRet EXCEPT !.sample = res.ret]
              /\ loc' = res.loc
              /\ hist' = Record(NoHist, res)
    /\ UNCHANGED <<bxdf, memo>>

Layered_Sample_f_Step ==
    /\ pc = "Sample_f" /\ loc.depth < bxdf.maxDepth
    /\ \E rr \in Drawn(DrawsIf(loc.depth > 3, EndDraws), 0),
          rdz \in Drawn(DrawsIf(SNonZero(bxdf.albedo), RDraws), 1),
          uc \in Drawn(StepUcDraws(bxdf), 2),
          u \in Drawn(StepUDraws(bxdf), 3) :
          \E res \in {Layered_Sample_f_Iter(bxdf, loc, call.mode, rr, rdz,
                                            uc, u)} :
              /\ pc' = CASE res.how = "continue" -> "Sample_f"
                         [] res.how = "dcheck" -> "abort"
                         [] OTHER -> "done"
              /\ ret' = [NoRet EXCEPT !.sample = res.ret]
              /\ loc' = res.loc
              /\ hist' = [Record(hist, res) EXCEPT !.iters = hist.iters + 1]
    /\ rng' = Used(4)
    /\ UNCHANGED <<bxdf, call, memo>>

\* The loop ends without a sample: return {}
Layered_Sample_f_Exhausted ==
    /\ pc = "Sample_f" /\ ~(loc.depth < bxdf.maxDepth)
    /\ pc' = "done"
    /\ ret' = NoRet
    /\ hist' = [hist EXCEPT !.how = "exhausted"]
    /\ UNCHANGED <<bxdf, call, loc, gen>>

\* ------------------------------------------------------ LayeredBxDF::f

Layered_f_Call ==
    /\ pc = "idle" /\ IsLayered /\ SmoothDielectrics(bxdf)
    /\ \E wo \in ArgsOf(Dirs, SeededDirs), wi \in ArgsOf(Dirs, SeededDirs),
          mode \in ArgsOf(Modes, {"Radiance"}) :
          /\ call' = [op |-> "f", wo |-> wo, wi |-> wi, mode |-> mode,
                      sampleFlags |-> All]
          /\ loc' = Layered_f_Enter(bxdf, wo, wi, mode)
    /\ rng' = Called(NewRNG(rng, rng.seed, loc'.wo, <<loc'.wi>>), <<>>)
    /\ pc' = "f"
    /\ ret' = NoRet
    /\ hist' = NoHist
    /\ UNCHANGED <<bxdf, memo>>

Layered_f_Sample ==
    /\ pc = "f" /\ ~loc.inWalk /\ loc.s < bxdf.nSamples
    /\ \E uc1 \in Drawn(UcDraws(TopOrBottom(bxdf, loc.enteredTop)), 0),
          u1 \in Drawn(UDraws(TopOrBottom(bxdf, loc.enteredTop)), 1),
          uc2 \in Drawn(UcDraws(TopOrBottom(bxdf, loc.exitTop)), 2),
          u2 \in Drawn(UDraws(TopOrBottom(bxdf, loc.exitTop)), 3) :
          loc' = Layered_f_Trial(bxdf, loc, call.mode, uc1, u1, uc2, u2)
    /\ hist' = [hist EXCEPT !.trials = hist.trials + 1]
    /\ rng' = Used(4)
    /\ UNCHANGED <<bxdf, pc, call, ret, memo>>

Layered_f_Step ==
    /\ pc = "f" /\ loc.inWalk /\ loc.depth < bxdf.maxDepth
    /\ \E rr \in Drawn(DrawsIf(loc.depth > 3, EndDraws), 0),
          rdz \in Drawn(DrawsIf(SNonZero(bxdf.albedo), RDraws), 1),
          uc \in Drawn(StepUcDraws(bxdf), 2),
          u \in Drawn(StepUDraws(bxdf), 3) :
          loc' = Layered_f_Iter(bxdf, loc, call.mode, rr, rdz, uc, u)
    /\ hist' = [hist EXCEPT !.iters = hist.iters + 1]
    /\ rng' = Used(4)
    /\ UNCHANGED <<bxdf, pc, call, ret, memo>>

\* The loop over depth ends: on to the next s
Layered_f_EndWalk ==
    /\ pc = "f" /\ loc.inWalk /\ ~(loc.depth < bxdf.maxDepth)
    /\ loc' = Layered_f_Break(loc)
    /\ UNCHANGED <<bxdf, pc, call, ret, hist, gen>>

\* return f / nSamples
Layered_f_Return ==
    /\ pc = "f" /\ ~loc.inWalk /\ ~(loc.s < bxdf.nSamples)
    /\ pc' = "done"
    /\ ret' = [NoRet EXCEPT !.f = SDiv(loc.f, Q(bxdf.nSamples, 1))]
    /\ UNCHANGED <<bxdf, call, loc, hist, gen>>

\* ---------------------------------------------------- LayeredBxDF::PDF

\* The interface that the second sample of a trial is taken from:
\* tInterface for the TRT term, tiInterface for the TT term
SecondTop(l) ==
    IF SameHemisphere(l.wo, l.wi) THEN l.enteredTop ELSE ~l.enteredTop

\* The trial samples rInterface: the TRT term with a non-specular tInterface
SamplesReflection(b, l) ==
    /\ SameHemisphere(l.wo, l.wi)
    /\ IsNonSpecular(TopOrBottom_Flags(b, l.enteredTop))

ReflectionUcDraws(b, l) ==
    IF SamplesReflection(b, l) THEN UcDraws(TopOrBottom(b, ~l.enteredTop))
    ELSE {Zero}

ReflectionUDraws(b, l) ==
    IF SamplesReflection(b, l) THEN UDraws(TopOrBottom(b, ~l.enteredTop))
    ELSE {<<Zero, Zero>>}

Layered_PDF_Call ==
    /\ pc = "idle" /\ IsLayered /\ SmoothDielectrics(bxdf)
    /\ \E wo \in ArgsOf(Dirs, SeededDirs), wi \in ArgsOf(Dirs, SeededDirs),
          mode \in ArgsOf(Modes, {"Radiance"}),
          sampleFlags \in ArgsOf(ReflTransFlags, {All}) :
          /\ call' = [op |-> "PDF", wo |-> wo, wi |-> wi, mode |-> mode,
                      sampleFlags |-> sampleFlags]
          /\ pc' = IF sampleFlags # All THEN "abort" ELSE "PDF"
          /\ loc' = IF sampleFlags # All THEN NoLocals
                    ELSE Layered_PDF_Enter(bxdf, wo, wi, mode)
          /\ hist' = [NoHist EXCEPT
                        !.how = IF sampleFlags # All THEN "abort" ELSE "none"]
          /\ rng' = IF sampleFlags # All THEN rng
                    ELSE Called(NewRNG(rng, rng.seed, loc'.wi, <<loc'.wo>>),
                                <<>>)
    /\ ret' = NoRet
    /\ UNCHANGED <<bxdf, memo>>

Layered_PDF_Sample ==
    /\ pc = "PDF" /\ loc.s < bxdf.nSamples
    /\ \E uc1 \in Drawn(UcDraws(TopOrBottom(bxdf, loc.enteredTop)), 0),
          u1 \in Drawn(UDraws(TopOrBottom(bxdf, loc.enteredTop)), 1),
          uc2 \in Drawn(UcDraws(TopOrBottom(bxdf, SecondTop(loc))), 2),
          u2 \in Drawn(UDraws(TopOrBottom(bxdf, SecondTop(loc))), 3),
          uc3 \in Drawn(ReflectionUcDraws(bxdf, loc), 4),
          u3 \in Drawn(ReflectionUDraws(bxdf, loc), 5) :
          loc' = Layered_PDF_Trial(bxdf, loc, call.mode, uc1, u1, uc2, u2,
                                   uc3, u3)
    /\ hist' = [hist EXCEPT !.trials = hist.trials + 1]
    /\ rng' = Used(6)
    /\ UNCHANGED <<bxdf, pc, call, ret, memo>>

Layered_PDF_Return ==
    /\ pc = "PDF" /\ ~(loc.s < bxdf.nSamples)
    /\ pc' = "done"
    /\ ret' = [NoRet EXCEPT !.pdf = Layered_PDF_Result(bxdf, loc.pdfSum)]
    /\ UNCHANGED <<bxdf, call, loc, hist, gen>>

\* ------------------------------------------ The lobes that have no loop

Lobe_f_Call ==
    /\ pc = "idle" /\ ~IsLayered
    /\ \E wo \in Dirs, wi \in Dirs, mode \in Modes :
          /\ call' = [op |-> "f", wo |-> wo, wi |-> wi, mode |-> mode,
                      sampleFlags |-> All]
          /\ ret' = [NoRet EXCEPT !.f = BxDF_f(bxdf, wo, wi, mode)]
    /\ pc' = "done"
    /\ UNCHANGED <<bxdf, loc, hist, gen>>

\* rv is what the lobe's own generator returns (DisneyBxDF)
Lobe_Sample_f_Call ==
    /\ pc = "idle" /\ ~IsLayered
    /\ \E wo \in ArgsOf(Dirs, SeededDirs), uc \in RDraws, u \in U3,
          mode \in ArgsOf(Modes, {"Radiance"}),
          sampleFlags \in ArgsOf(ReflTransFlags, {All}) :
          \E g \in {Called(IF bxdf.kind = "Disney"
                           THEN NewRNG(rng, rng.seed, FlippedWo(TRUE, wo),
                                       uc \o u[1] \o u[2])
                           ELSE rng,
                           uc \o u[1] \o u[2])},
             rv \in DrawsIf(bxdf.kind = "Disney", RDraws) :
          /\ g.seeded => rv = Pick(RDraws, g.n)
          /\ rng' = (IF g.seeded THEN [g EXCEPT !.n = RngAfter(g.n, 1)]
                     ELSE g)
          /\ call' = [op |-> "Sample_f", wo |-> wo, wi |-> 0, mode |-> mode,
                      sampleFlags |-> sampleFlags]
          /\ ret' = [NoRet EXCEPT
                       !.sample = BxDF_Sample_f(bxdf, wo, uc, u, mode,
                                                sampleFlags, rv)]
    /\ pc' = "done"
    /\ UNCHANGED <<bxdf, loc, hist, memo>>

Lobe_PDF_Call ==
    /\ pc = "idle" /\ ~IsLayered
    /\ \E wo \in Dirs, wi \in Dirs, mode \in Modes,
          sampleFlags \in ReflTransFlags :
          /\ call' = [op |-> "PDF", wo |-> wo, wi |-> wi, mode |-> mode,
                      sampleFlags |-> sampleFlags]
          /\ ret' = [NoRet EXCEPT
                       !.pdf = BxDF_PDF(bxdf, wo, wi, mode, sampleFlags)]
    /\ pc' = "done"
    /\ UNCHANGED <<bxdf, loc, hist, gen>>

\* Flags() of the instance; the CHECK of LayeredBxDF::Flags ends the program
\* when neither interface is transmissive.
Flags_Call ==
    /\ pc = "idle"
    /\ call' = [NoCall EXCEPT !.op = "Flags"]
    /\ pc' = IF IsLayered /\ ~Layered_Flags_Check(bxdf) THEN "abort"
             ELSE "done"
    /\ ret' = IF IsLayered
              THEN IF Layered_Flags_Check(bxdf)
                   THEN [NoRet EXCEPT !.flags = Layered_Flags(bxdf)]
                   ELSE NoRet
              ELSE [NoRet EXCEPT !.flags = BxDF_Flags(bxdf)]
    /\ UNCHANGED <<bxdf, loc, hist, gen>>

\* Regularize() of the instance
Regularize_Call ==
    /\ pc = "idle"
    /\ call' = [NoCall EXCEPT !.op = "Regularize"]
    /\ bxdf' = IF IsLayered THEN Layered_Regularize(bxdf)
               ELSE Regularized(bxdf)
    /\ pc' = "done"
    /\ UNCHANGED <<ret, loc, hist, gen>>

\* ------------------------------------------------------ TopOrBottomBxDF
\* A TopOrBottomBxDF of the caller, loc.interfaces.interface, on the
\* interfaces of the instance: assignments in any order, and calls through
\* it.  hist.assigned is the sequence of the assignments made.

MaxAssignments == 3

TopOrBottom_Assign_Call ==
    /\ pc = "idle" /\ IsLayered /\ Len(hist.assigned) < MaxAssignments
    /\ \E isTop \in BOOLEAN :
          /\ loc' = [loc EXCEPT
                        !.interfaces.interface = TopOrBottom_Assign(@, isTop)]
          /\ hist' = [hist EXCEPT
                         !.assigned = Append(@, IF isTop THEN "top"
                                                ELSE "bottom")]
    /\ UNCHANGED <<bxdf, pc, call, ret, gen>>

\* How a call through x ends, whose result on the top interface is top and
\* on the bottom interface bottom.  A call through an object that was never
\* assigned reads a null reference: the program stops, or goes on with
\* either result or none.
TopOrBottom_Through(x, top, bottom) ==
    CASE TopOrBottom_Target(x) = "top" -> {<<"done", top>>}
      [] TopOrBottom_Target(x) = "bottom" -> {<<"done", bottom>>}
      [] OTHER -> {<<"abort", NoRet>>, <<"done", top>>, <<"done", bottom>>,
                   <<"done", NoRet>>}

TopOrBottom_f_Call ==
    /\ pc = "idle" /\ IsLayered
    /\ \E wo \in Dirs, wi \in Dirs, mode \in Modes :
          /\ call' = [op |-> "TopOrBottom_f", wo |-> wo, wi |-> wi,
                      mode |-> mode, sampleFlags |-> All]
          /\ \E end \in TopOrBottom_Through(
                            loc.interfaces.interface,
                            [NoRet EXCEPT
                                !.f = TopOrBottom_f(bxdf, TRUE, wo, wi,
                                                    mode)],
                            [NoRet EXCEPT
                                !.f = TopOrBottom_f(bxdf, FALSE, wo, wi,
                                                    mode)]) :
                pc' = end[1] /\ ret' = end[2]
    /\ UNCHANGED <<bxdf, loc, hist, gen>>

TopOrBottom_Sample_f_Call ==
    /\ pc = "idle" /\ IsLayered
    /\ \E wo \in Dirs, mode \in Modes, sampleFlags \in ReflTransFlags,
          uc \in RDraws, u \in U3 :
          /\ call' = [op |-> "TopOrBottom_Sample_f", wo |-> wo, wi |-> 0,
                      mode |-> mode, sampleFlags |-> sampleFlags]
          /\ \E end \in TopOrBottom_Through(
                            loc.interfaces.interface,
                            [NoRet EXCEPT
                                !.sample = TopOrBottom_Sample_f(
                                               bxdf, TRUE, wo, uc, u, mode,
                                               sampleFlags)],
                            [NoRet EXCEPT
                                !.sample = TopOrBottom_Sample_f(
                                               bxdf, FALSE, wo, uc, u, mode,
                                               sampleFlags)]) :
                pc' = end[1] /\ ret' = end[2]
    /\ UNCHANGED <<bxdf, loc, hist, gen>>

TopOrBottom_PDF_Call ==
    /\ pc = "idle" /\ IsLayered
    /\ \E wo \in Dirs, wi \in Dirs, mode \in Modes,
          sampleFlags \in ReflTransFlags :
          /\ call' = [op |-> "TopOrBottom_PDF", wo |-> wo, wi |-> wi,
                      mode |-> mode, sampleFlags |-> sampleFlags]
          /\ \E end \in TopOrBottom_Through(
                            loc.interfaces.interface,
                            [NoRet EXCEPT
                                !.pdf = TopOrBottom_PDF(bxdf, TRUE, wo, wi,
                                                        mode, sampleFlags)],
                            [NoRet EXCEPT
                                !.pdf = TopOrBottom_PDF(bxdf, FALSE, wo, wi,
                                                        mode, sampleFlags)]) :
                pc' = end[1] /\ ret' = end[2]
    /\ UNCHANGED <<bxdf, loc, hist, gen>>

TopOrBottom_Flags_Call ==
    /\ pc = "idle" /\ IsLayered
    /\ call' = [NoCall EXCEPT !.op = "TopOrBottom_Flags"]
    /\ \E end \in TopOrBottom_Through(
                      loc.interfaces.interface,
                      [NoRet EXCEPT !.flags = TopOrBottom_Flags(bxdf, TRUE)],
                      [NoRet EXCEPT
                          !.flags = TopOrBottom_Flags(bxdf, FALSE)]) :
          pc' = end[1] /\ ret' = end[2]
    /\ UNCHANGED <<bxdf, loc, hist, gen>>

\* The caller takes the result; the instance is ready for the next call.
\* Where the generator is followed, the caller may keep the call and its
\* result to compare a later call with.
Return ==
    /\ pc = "done"
    /\ pc' = "idle"
    /\ call' = NoCall
    /\ ret' = NoRet
    /\ loc' = NoLocals
    /\ hist' = NoHist
    /\ \/ memo' = [memo EXCEPT !.other = rng.seeded /\ memo # NoMemo]
       \/ /\ rng.seeded
          /\ memo' = [call |-> call, args |-> rng.args, ret |-> ret,
                      other |-> FALSE]
    /\ UNCHANGED <<bxdf, rng>>

Next ==
    \/ Layered_Sample_f_Call
    \/ Layered_Sample_f_Step
    \/ Layered_Sample_f_Exhausted
    \/ Layered_f_Call
    \/ Layered_f_Sample
    \/ Layered_f_Step
    \/ Layered_f_EndWalk
    \/ Layered_f_Return
    \/ Layered_PDF_Call
    \/ Layered_PDF_Sample
    \/ Layered_PDF_Return
    \/ Lobe_f_Call
    \/ Lobe_Sample_f_Call
    \/ Lobe_PDF_Call
    \/ Flags_Call
    \/ Regularize_Call
    \/ Return

Spec == Init /\ [][Next]_vars

\* The calls on the lobes that have no loop, on their own
LobeInit == Init /\ ~IsLayered

LobeNext ==
    \/ Lobe_f_Call
    \/ Lobe_Sample_f_Call
    \/ Lobe_PDF_Call
    \/ Flags_Call
    \/ Regularize_Call
    \/ Return

LobeSpec == LobeInit /\ [][LobeNext]_vars

\* The calls on the layered instances whose walks are followed
WalkInit ==
    /\ bxdf \in WalkInstances
    /\ pc = "idle"
    /\ call = NoCall
    /\ ret = NoRet
    /\ loc = NoLocals
    /\ hist = NoHist
    /\ rng = FreeRNG
    /\ memo = NoMemo

WalkNext ==
    \/ Layered_Sample_f_Call
    \/ Layered_Sample_f_Step
    \/ Layered_Sample_f_Exhausted
    \/ Layered_f_Call
    \/ Layered_f_Sample
    \/ Layered_f_Step
    \/ Layered_f_EndWalk
    \/ Layered_f_Return
    \/ Layered_PDF_Call
    \/ Layered_PDF_Sample
    \/ Layered_PDF_Return
    \/ Flags_Call
    \/ Regularize_Call
    \/ Return

WalkSpec == WalkInit /\ [][WalkNext]_vars

\* The layered instances with the TopOrBottomBxDF objects followed: the
\* objects that f, Sample_f and PDF declare, and one of the caller's
InterfaceInstances ==
    {LayeredBxDF(st[1], st[2], st[3], st[4], st[5], Zero, 2, 1) :
        st \in GenericStacks \cup {CoatedConductorStack}}

InterfaceInit ==
    /\ bxdf \in InterfaceInstances
    /\ pc = "idle"
    /\ call = NoCall
    /\ ret = NoRet
    /\ loc = NoLocals
    /\ hist = NoHist
    /\ rng = FreeRNG
    /\ memo = NoMemo

InterfaceNext ==
    \/ TopOrBottom_Assign_Call
    \/ TopOrBottom_f_Call
    \/ TopOrBottom_Sample_f_Call
    \/ TopOrBottom_PDF_Call
    \/ TopOrBottom_Flags_Call
    \/ Layered_Sample_f_Call
    \/ Layered_Sample_f_Step
    \/ Layered_Sample_f_Exhausted
    \/ Layered_f_Call
    \/ Layered_f_Sample
    \/ Layered_f_Step
    \/ Layered_f_EndWalk
    \/ Layered_f_Return
    \/ Layered_PDF_Call
    \/ Layered_PDF_Sample
    \/ Layered_PDF_Return
    \/ Return

InterfaceSpec == InterfaceInit /\ [][InterfaceNext]_vars

\* The calls that declare a generator, with the generator followed: the
\* seed of the program is fixed, and the caller compares a call with an
\* earlier one.
Seeds == {0, 1}

SeededInstances ==
    {LayeredBxDF(st[1], st[2], st[3], st[4], st[5], Zero, 2, MaxSamples) :
        st \in {CoatedDiffuseStack, CoatedConductorStack}}
    \cup {DisneyBxDF(Half, Zero, One, Q(1, 2))}

SeededInit ==
    /\ bxdf \in SeededInstances
    /\ pc = "idle"
    /\ call = NoCall
    /\ ret = NoRet
    /\ loc = NoLocals
    /\ hist = NoHist
    /\ \E seed \in Seeds :
          rng = [FreeRNG EXCEPT !.seeded = TRUE, !.seed = seed]
    /\ memo = NoMemo

SeededNext ==
    \/ Layered_Sample_f_Call
    \/ Layered_Sample_f_Step
    \/ Layered_Sample_f_Exhausted
    \/ Layered_f_Call
    \/ Layered_f_Sample
    \/ Layered_f_Step
    \/ Layered_f_EndWalk
    \/ Layered_f_Return
    \/ Layered_PDF_Call
    \/ Layered_PDF_Sample
    \/ Layered_PDF_Return
    \/ Lobe_Sample_f_Call
    \/ Return

SeededSpec == SeededInit /\ [][SeededNext]_vars

\* ------------------------------------------------------------ Properties

LayeredDone(op) == IsLayered /\ pc = "done" /\ call.op = op

\* C1: the loops of the LayeredBxDF methods are bounded, so every call
\* terminates: f makes at most nSamples trials and at most
\* nSamples * maxDepth iterations of its walk, Sample_f at most maxDepth
\* iterations, and PDF makes exactly nSamples trials and no iteration of a
\* walk.
C1_LoopsBounded ==
    IsLayered =>
        /\ call.op = "f" =>
              /\ hist.trials <= bxdf.nSamples
              /\ hist.iters <= bxdf.nSamples * bxdf.maxDepth
        /\ call.op = "Sample_f" => hist.iters <= bxdf.maxDepth
        /\ call.op = "PDF" =>
              /\ hist.iters = 0
              /\ hist.trials <= bxdf.nSamples
              /\ pc = "done" => hist.trials = bxdf.nSamples

\* A call of f that made all of its nSamples * maxDepth iterations
C1_Witness ==
    /\ LayeredDone("f")
    /\ bxdf.nSamples >= 2 /\ bxdf.maxDepth >= 2
    /\ hist.iters = bxdf.nSamples * bxdf.maxDepth

\* C2 as stated: a call of Sample_f whose entrance sample was a transmission
\* ends by returning the sample of an interface step that was a
\* transmission, or empty after a rejected sub-lobe or phase function sample
\* or a Russian roulette termination, or empty with maxDepth iterations
\* made; these are its only endings.
C2_ThreeEndings ==
    LayeredDone("Sample_f") /\ hist.entered =>
        hist.how \in {"exit", "failed", "roulette", "exhausted"}

\* C2, amended: the endings are those three and the empty return after a
\* free flight of length zero in the medium; a sample is returned only by
\* an interface step whose sub-lobe sample was a usable transmission, the
\* walk goes on only after a step that was not a transmission, and no
\* sample is returned once maxDepth iterations are made without one.
C2_FourEndings ==
    /\ LayeredDone("Sample_f") /\ hist.entered =>
          /\ hist.how \in
                {"exit", "failed", "roulette", "zeroflight", "exhausted"}
          /\ ret.sample.present <=> hist.how = "exit"
          /\ hist.how = "exit" =>
                ~Rejected(hist.last) /\ IsTransmissive(hist.last.flags)
          /\ hist.how = "failed" => Rejected(hist.last)
          /\ hist.how = "roulette" => loc.depth > 3
          /\ hist.how = "zeroflight" => SNonZero(bxdf.albedo)
          /\ hist.how = "exhausted" => hist.iters = bxdf.maxDepth
    /\ IsLayered /\ pc = "Sample_f" /\ hist.iters > 0 =>
          ~IsTransmissive(hist.last.flags)

\* A sample returned after the path was reflected inside the layers
C2_Witness ==
    /\ LayeredDone("Sample_f") /\ hist.entered
    /\ hist.how = "exit" /\ hist.iters >= 2

\* C3: every sample that LayeredBxDF::Sample_f returns has pdfIsProportional
\* set, the entrance reflection as well as the sample that leaves the
\* layers.
C3_PdfIsProportional ==
    LayeredDone("Sample_f") /\ ret.sample.present =>
        ret.sample.pdfIsProportional

\* The entrance sample was a reflection and is returned
C3_Witness ==
    /\ LayeredDone("Sample_f") /\ hist.how = "reflection"
    /\ ret.sample.present /\ IsReflective(ret.sample.flags)

\* C4: the flags of a sample returned by the walk hold Reflection when the
\* returned direction is in the hemisphere of the caller's wo and
\* Transmission otherwise, and Specular when every interface sample of the
\* path was specular and the medium did not scatter, Glossy otherwise.
C4_ExitFlags ==
    LayeredDone("Sample_f") /\ hist.how = "exit" =>
        /\ IsReflective(ret.sample.flags)
              <=> SameHemisphere(call.wo, ret.sample.wi)
        /\ IsTransmissive(ret.sample.flags)
              <=> ~SameHemisphere(call.wo, ret.sample.wi)
        /\ IsSpecular(ret.sample.flags)
              <=> (hist.allSpecular /\ ~hist.scattered)
        /\ IsGlossy(ret.sample.flags)
              <=> ~(hist.allSpecular /\ ~hist.scattered)

\* A walk from below a two-sided instance, through specular interfaces and
\* a scattering event, returns a sample
C4_Witness ==
    /\ LayeredDone("Sample_f") /\ hist.how = "exit"
    /\ bxdf.twoSided /\ call.wo < 0
    /\ hist.allSpecular /\ hist.scattered

\* 0.1 / (4 Pi), the share of the isotropic density in the blend
IsotropicShare == QMul(Q(1, 10), QDiv(One, QMul(Q(4, 1), Pi)))

\* C5: LayeredBxDF::PDF returns 0.9 * (pdfSum / nSamples) + 0.1 / (4 Pi)
\* with pdfSum not negative, so for every wo and wi, in the same or in
\* opposite hemispheres, the density returned is strictly positive and at
\* least 0.1 / (4 Pi).
C5_BlendedPositive ==
    LayeredDone("PDF") =>
        /\ QGe(loc.pdfSum, Zero)
        /\ QEq(ret.pdf,
               QAdd(QMul(Q(9, 10), QDiv(loc.pdfSum, Q(bxdf.nSamples, 1))),
                    IsotropicShare))
        /\ QGt(ret.pdf, Zero)
        /\ QGe(ret.pdf, IsotropicShare)

\* C5 for the instances that make at least one trial
C5_BlendedPositive_Sampled ==
    bxdf.kind = "Layered" /\ bxdf.nSamples >= 1 => C5_BlendedPositive

\* PDF returns a density that is not a number: an instance with nSamples = 0
C5_NotANumber == LayeredDone("PDF") /\ IsNaN(ret.pdf)

LobeDone(op) == ~IsLayered /\ pc = "done" /\ call.op = op

SimpleKinds ==
    {"Diffuse", "DiffuseTransmission", "Conductor", "ThinDielectric",
     "NormalizedFresnel"}

ReflectionOnlyKinds == {"Diffuse", "Conductor", "NormalizedFresnel"}

\* Sample_f of b can return wi for wo under sampleFlags, with some draws
Producible(b, wo, wi, mode, sampleFlags) ==
    \E uc \in RDraws, u \in U3, rv \in RDraws :
        \E bs \in {BxDF_Sample_f(b, wo, uc, u, mode, sampleFlags, rv)} :
            bs.present /\ bs.wi = wi

\* PDF is 0 in the cases that C6 names: wi in the other hemisphere of a
\* reflection-only lobe, a request that excludes the transport kind of the
\* pair wo, wi, a delta lobe, and no strategy with a weight.
C6_NamedCases ==
    LobeDone("PDF") /\ bxdf.kind \in SimpleKinds =>
        /\ bxdf.kind \in ReflectionOnlyKinds
           /\ ~SameHemisphere(call.wo, call.wi) => QEq(ret.pdf, Zero)
        /\ SameHemisphere(call.wo, call.wi)
           /\ ~IsReflective(call.sampleFlags) => QEq(ret.pdf, Zero)
        /\ ~SameHemisphere(call.wo, call.wi)
           /\ ~IsTransmissive(call.sampleFlags) => QEq(ret.pdf, Zero)
        /\ bxdf.kind = "ThinDielectric" \/ (bxdf.kind = "Conductor"
                                            /\ bxdf.smooth)
              => QEq(ret.pdf, Zero)
        /\ bxdf.kind = "DiffuseTransmission"
           /\ QEq(DiffuseTransmission_pr(bxdf, call.sampleFlags), Zero)
           /\ QEq(DiffuseTransmission_pt(bxdf, call.sampleFlags), Zero)
              => QEq(ret.pdf, Zero)

\* C6: for Diffuse, DiffuseTransmission, Conductor, ThinDielectric and
\* NormalizedFresnel, PDF(wo, wi, mode, requestFlags) is 0 wherever Sample_f
\* under the same requestFlags cannot produce wi from wo, the named cases
\* included.
C6_ZeroWhereNotSampled ==
    /\ C6_NamedCases
    /\ LobeDone("PDF") /\ bxdf.kind \in SimpleKinds
       /\ ~Producible(bxdf, call.wo, call.wi, call.mode, call.sampleFlags)
          => QEq(ret.pdf, Zero)

\* A positive density for a direction that Sample_f does not produce
C6_DensityWhereNotSampled ==
    /\ LobeDone("PDF") /\ bxdf.kind \in SimpleKinds
    /\ ~Producible(bxdf, call.wo, call.wi, call.mode, call.sampleFlags)
    /\ QGt(ret.pdf, Zero)

\* C7: DisneyBxDF::PDF and LayeredBxDF::PDF are 0 for every wi that Sample_f
\* cannot produce from wo: DisneyBxDF::PDF is 0 for wi in the opposite
\* hemisphere of wo when subsurface = 0, and LayeredBxDF::PDF is 0 for wi
\* in the opposite hemisphere of wo when the bottom sub-lobe is not
\* transmissive.
C7_ZeroWhereNotSampled ==
    /\ LobeDone("PDF") /\ bxdf.kind = "Disney"
       /\ ~Producible(bxdf, call.wo, call.wi, call.mode, call.sampleFlags)
          => QEq(ret.pdf, Zero)
    /\ LobeDone("PDF") /\ bxdf.kind = "Disney"
       /\ QEq(bxdf.subsurface, Zero) /\ call.wo * call.wi < 0
          => QEq(ret.pdf, Zero)
    /\ LayeredDone("PDF") /\ ~IsTransmissive(BxDF_Flags(bxdf.bottom))
       /\ call.wo * call.wi < 0
          => QEq(ret.pdf, Zero)

\* DisneyBxDF::PDF is positive for wi below the surface and wo above it,
\* with subsurface = 0
C7_DisneyDensityOpposite ==
    /\ LobeDone("PDF") /\ bxdf.kind = "Disney"
    /\ QEq(bxdf.subsurface, Zero) /\ call.wo * call.wi < 0
    /\ QGt(ret.pdf, Zero)

\* LayeredBxDF::PDF is positive for wi on the other side of a stack whose
\* bottom reflects only
C7_LayeredDensityOpposite ==
    /\ LayeredDone("PDF") /\ ~IsTransmissive(BxDF_Flags(bxdf.bottom))
    /\ bxdf.nSamples >= 1 /\ call.wo * call.wi < 0
    /\ QGt(ret.pdf, Zero)

\* The samples of a stack whose bottom reflects only stay on the side of wo
C7_LayeredSamplesSameSide ==
    LayeredDone("Sample_f") /\ ret.sample.present
    /\ ~IsTransmissive(BxDF_Flags(bxdf.bottom))
        => call.wo * ret.sample.wi >= 0

\* The density that PDF gives for the direction of the sample returned
PDFOfSample ==
    BxDF_PDF(bxdf, call.wo, ret.sample.wi, call.mode, call.sampleFlags)

\* C8: for every lobe and every (wo, uc, u, requestFlags) for which Sample_f
\* returns a sample whose density is not marked proportional, PDF(wo,
\* sample.wi, mode, requestFlags) equals sample.pdf: the specular samples of
\* ThinDielectric and of a smooth Conductor, the branch-weighted densities
\* of DiffuseTransmission and the flipped sample of Disney included.
C8_SampleDensityIsPDF ==
    LobeDone("Sample_f") /\ ret.sample.present
    /\ ~ret.sample.pdfIsProportional
        => QEq(PDFOfSample, ret.sample.pdf)

\* A specular sample with a positive density, for whose direction PDF is 0
C8_SpecularSampleZeroPDF ==
    /\ LobeDone("Sample_f") /\ ret.sample.present
    /\ ~ret.sample.pdfIsProportional
    /\ IsSpecular(ret.sample.flags)
    /\ call.wo # 0
    /\ QGt(ret.sample.pdf, Zero) /\ QEq(PDFOfSample, Zero)

\* Apart from the specular samples and the grazing wo, the densities agree
C8_NonSpecularAgree ==
    LobeDone("Sample_f") /\ ret.sample.present
    /\ ~ret.sample.pdfIsProportional
    /\ ~IsSpecular(ret.sample.flags) /\ call.wo # 0
        => QEq(PDFOfSample, ret.sample.pdf)

\* sampleFlags excludes every strategy of the lobe b
ExcludesAll(b, sampleFlags) ==
    \/ sampleFlags = Unset
    \/ b.kind \in ReflectionOnlyKinds /\ ~IsReflective(sampleFlags)

\* The sample bs is of a transport kind that sampleFlags allows
Honours(bs, sampleFlags) ==
    /\ IsReflective(bs.flags) => IsReflective(sampleFlags)
    /\ IsTransmissive(bs.flags) => IsTransmissive(sampleFlags)

\* C9: Sample_f of Diffuse, DiffuseTransmission, ThinDielectric, Conductor
\* and NormalizedFresnel returns empty when requestFlags excludes every
\* strategy of the lobe, and a sample it returns is not a reflection when
\* Reflection is excluded nor a transmission when Transmission is excluded.
C9_HonoursRequestFlags ==
    LobeDone("Sample_f") /\ bxdf.kind \in SimpleKinds =>
        /\ ExcludesAll(bxdf, call.sampleFlags) => ~ret.sample.present
        /\ ret.sample.present => Honours(ret.sample, call.sampleFlags)

\* NormalizedFresnelBxDF::Sample_f returns a sample under a request for
\* transmission only
C9_SampleWhenExcluded ==
    /\ LobeDone("Sample_f") /\ bxdf.kind = "NormalizedFresnel"
    /\ call.sampleFlags = TransOnly
    /\ ret.sample.present

\* The other four lobes honour requestFlags
C9_OthersHonour ==
    bxdf.kind # "NormalizedFresnel" => C9_HonoursRequestFlags

\* C10: DisneyBxDF::Sample_f returns no transmission under a request for
\* reflection only and no reflection under a request for transmission only,
\* and LayeredBxDF::Sample_f and PDF, called with a request for reflection
\* only or transmission only, return empty or 0 and fail no assertion.
C10_RejectsByEmpty ==
    /\ LobeDone("Sample_f") /\ bxdf.kind = "Disney" /\ ret.sample.present
          => Honours(ret.sample, call.sampleFlags)
    /\ IsLayered /\ call.op \in {"Sample_f", "PDF"}
       /\ call.sampleFlags \in {ReflOnly, TransOnly}
          => /\ pc # "abort"
             /\ pc = "done" => ~ret.sample.present /\ QEq(ret.pdf, Zero)

\* The CHECK of LayeredBxDF::Sample_f fails under a request for reflection
\* only
C10_AssertionFails ==
    /\ IsLayered /\ pc = "abort"
    /\ call.op = "Sample_f" /\ call.sampleFlags = ReflOnly

\* The CHECK of LayeredBxDF::PDF fails under a request for transmission only
C10_PDFAssertionFails ==
    /\ IsLayered /\ pc = "abort"
    /\ call.op = "PDF" /\ call.sampleFlags = TransOnly

\* DisneyBxDF::Sample_f returns a transmission under a request for
\* reflection only, and a reflection under one for transmission only
C10_DisneyTransmissionUnasked ==
    /\ LobeDone("Sample_f") /\ bxdf.kind = "Disney" /\ ret.sample.present
    /\ call.sampleFlags = ReflOnly /\ IsTransmissive(ret.sample.flags)

C10_DisneyReflectionUnasked ==
    /\ LobeDone("Sample_f") /\ bxdf.kind = "Disney" /\ ret.sample.present
    /\ call.sampleFlags = TransOnly /\ IsReflective(ret.sample.flags)

\* The lobes whose Sample_f has its body in bxdfs.h
SampledHereKinds ==
    {"Diffuse", "DiffuseTransmission", "ThinDielectric", "Conductor",
     "Disney", "Layered"}

\* C11: Sample_f of Diffuse, DiffuseTransmission, ThinDielectric, Conductor,
\* Disney and Layered returns no sample whose direction has z = 0 or whose
\* density is 0: it returns empty instead, also for a cosine-hemisphere
\* sample on the horizon and for a grazing wo on the delta lobes.
C11_NoDegenerateSample ==
    pc = "done" /\ call.op = "Sample_f" /\ bxdf.kind \in SampledHereKinds
    /\ ret.sample.present
        => ret.sample.wi # 0 /\ ~QEq(ret.sample.pdf, Zero)

\* DiffuseBxDF::Sample_f returns the sample on the horizon, with density 0
C11_HorizonSample ==
    /\ LobeDone("Sample_f") /\ bxdf.kind = "Diffuse"
    /\ ret.sample.present
    /\ ret.sample.wi = 0 /\ QEq(ret.sample.pdf, Zero)

\* A delta lobe returns the mirror direction of a grazing wo
C11_GrazingDeltaSample ==
    /\ LobeDone("Sample_f") /\ call.wo = 0
    /\ bxdf.kind \in {"ThinDielectric", "Conductor"}
    /\ ret.sample.present /\ IsSpecular(ret.sample.flags)
    /\ ret.sample.wi = 0

\* LayeredBxDF::Sample_f, which tests every sample it draws, returns none
\* that is degenerate
C11_LayeredNoDegenerateSample ==
    LayeredDone("Sample_f") /\ ret.sample.present
        => ret.sample.wi # 0 /\ QGt(ret.sample.pdf, Zero)

\* C12: the requirement that at least one of the two interfaces is
\* transmissive is checked when the instance is constructed, so no call of
\* f, Sample_f or PDF runs on an instance whose interfaces both only reflect.
C12_CheckedAtConstruction ==
    IsLayered /\ ~Layered_Flags_Check(bxdf)
        => call.op \notin {"f", "Sample_f", "PDF"}

\* f has returned a value on a stack of two interfaces that only reflect
C12_OpaqueStackEvaluated ==
    LayeredDone("f") /\ ~Layered_Flags_Check(bxdf)
    /\ SNonZero(ret.f)

\* the requirement is checked by Flags()
C12_CheckedByFlags ==
    IsLayered /\ pc = "abort" /\ call.op = "Flags" /\ ~Layered_Flags_Check(bxdf)

\* C13: the thickness stored by the constructor is strictly positive, at
\* least the smallest positive normal Float, whatever thickness was given
\* (zero and negative included); no operation changes it, so the interface
\* positions 0 and thickness are always distinct.
C13_ThicknessPositive ==
    /\ [](IsLayered => /\ QGe(bxdf.thickness, FLT_MIN)
                       /\ QGt(bxdf.thickness, Zero)
                       /\ bxdf.thickness # Zero)
    /\ [][IsLayered => bxdf'.thickness = bxdf.thickness]_vars

\* Regularize() has changed an interface of a stack, and an operation has
\* completed on a stack constructed with a thickness of zero or less
C13_ThinStackOperated ==
    /\ IsLayered /\ pc = "done"
    /\ call.op \in {"f", "Sample_f", "PDF", "Flags", "Regularize"}
    /\ bxdf.thickness = FLT_MIN

\* C14: f, Sample_f and PDF of LayeredBxDF and Sample_f of DisneyBxDF are
\* deterministic and keep no state between calls: a call with the same
\* instance, seed and arguments as an earlier call returns the same result,
\* whatever calls were made in between.
C14_SameCallSameResult ==
    pc = "done" /\ memo.call = call /\ memo.args = rng.args
        => ret = memo.ret

\* A walk of f that took values from its generator returned what the same
\* call returned earlier, with another call made in between
C14_RepeatedAfterOther ==
    /\ LayeredDone("f") /\ hist.iters > 0
    /\ memo.call = call /\ memo.args = rng.args /\ memo.other
    /\ ret = memo.ret

\* The value of NormalizedFresnelBxDF::f before the factor of the mode
NormalizedFresnel_Unscaled(b, wi) ==
    QDiv(QSub(One, FrDielectric(CosTheta(wi), b.eta)),
         QMul(NormalizedFresnel_c(b), Pi))

NormalizedFresnel_fDone ==
    LobeDone("f") /\ bxdf.kind = "NormalizedFresnel"

\* C15 as stated: for directions in the same hemisphere the value of
\* NormalizedFresnelBxDF::f is multiplied by eta^2 when the mode is
\* Importance and not when it is Radiance; it is zero for directions in
\* opposite hemispheres.
C15_ScaledInImportance ==
    NormalizedFresnel_fDone =>
        ret.f = IF ~SameHemisphere(call.wo, call.wi) THEN SZero
                ELSE IF call.mode = "Importance"
                THEN SConst(QMul(NormalizedFresnel_Unscaled(bxdf, call.wi),
                                 Sqr(bxdf.eta)))
                ELSE SConst(NormalizedFresnel_Unscaled(bxdf, call.wi))

\* C15 amended: the value is multiplied by eta^2 when the mode is Radiance
\* and not when it is Importance; it is zero for directions in opposite
\* hemispheres.
C15_ScaledInRadiance ==
    NormalizedFresnel_fDone =>
        ret.f = IF ~SameHemisphere(call.wo, call.wi) THEN SZero
                ELSE IF call.mode = "Radiance"
                THEN SConst(QMul(NormalizedFresnel_Unscaled(bxdf, call.wi),
                                 Sqr(bxdf.eta)))
                ELSE SConst(NormalizedFresnel_Unscaled(bxdf, call.wi))

\* A non-zero value in Radiance mode, eta^2 times the unscaled value, with
\* eta other than 1
C15_RadianceScaled ==
    /\ NormalizedFresnel_fDone /\ call.mode = "Radiance"
    /\ SameHemisphere(call.wo, call.wi)
    /\ ~QEq(bxdf.eta, One)
    /\ SNonZero(ret.f)
    /\ ret.f = SConst(QMul(NormalizedFresnel_Unscaled(bxdf, call.wi),
                           Sqr(bxdf.eta)))

\* R' of the claim: R + T*T*R / (1 - R*R), applied only when R < 1
C16_R(b, wo) ==
    LET R == FrDielectric(AbsCosTheta(wo), b.eta)
    IN  IF QLt(R, One)
        THEN QAdd(R, QDiv(QMul(QMul(QSub(One, R), QSub(One, R)), R),
                          QSub(One, QMul(R, R))))
        ELSE R

\* What the claim says of the sample a draw uc gives, with weights Rp and Tp
C16_AsClaimed(bs, uc, sampleFlags, Rp, Tp) ==
    CASE sampleFlags = All ->
            /\ bs.present
            /\ (bs.flags = SpecularReflection) = QLt(uc, Rp)
            /\ (bs.flags = SpecularTransmission) = ~QLt(uc, Rp)
            /\ QEq(bs.pdf, IF QLt(uc, Rp) THEN Rp ELSE Tp)
      [] sampleFlags = ReflOnly ->
            IF QEq(Rp, Zero) THEN ~bs.present
            ELSE /\ bs.present /\ bs.flags = SpecularReflection
                 /\ QEq(bs.pdf, One)
      [] sampleFlags = TransOnly ->
            IF QEq(Tp, Zero) THEN ~bs.present
            ELSE /\ bs.present /\ bs.flags = SpecularTransmission
                 /\ QEq(bs.pdf, One)
      [] OTHER -> ~bs.present

\* C16: ThinDielectricBxDF: f and PDF are 0 for all arguments; R' and
\* T' = 1 - R' sum to 1; with All the reflection branch is taken exactly
\* when uc < R' and the densities of the branches are R' and T'; with a
\* request of a single kind the allowed branch is taken with density 1 when
\* its weight is not zero, and the sample is empty when both weights are zero.
C16_ThinDielectric ==
    LobeDone(call.op) /\ bxdf.kind = "ThinDielectric" =>
        /\ call.op = "f" => ret.f = SZero
        /\ call.op = "PDF" => ret.pdf = Zero
        /\ call.op = "Sample_f" =>
              LET Rp == C16_R(bxdf, call.wo)
                  Tp == QSub(One, Rp)
              IN  /\ QEq(QAdd(Rp, Tp), One)
                  /\ \E uc \in RDraws :
                        ret.sample = ThinDielectric_Sample_f(
                                         bxdf, call.wo, uc, <<Zero, Zero>>,
                                         call.mode, call.sampleFlags)
                  /\ \A uc \in RDraws :
                        C16_AsClaimed(
                            ThinDielectric_Sample_f(
                                bxdf, call.wo, uc, <<Zero, Zero>>,
                                call.mode, call.sampleFlags),
                            uc, call.sampleFlags, Rp, Tp)

\* With R' = 1/2 and both kinds requested a transmission of density 1/2 was
\* sampled
C16_HalfTransmitted ==
    /\ LobeDone("Sample_f") /\ bxdf.kind = "ThinDielectric"
    /\ call.sampleFlags = All
    /\ C16_R(bxdf, call.wo) = Q(1, 2)
    /\ ret.sample.present /\ ret.sample.flags = SpecularTransmission
    /\ ret.sample.pdf = Q(1, 2)

DisneySampled == LobeDone("Sample_f") /\ bxdf.kind = "Disney"

\* Values of uc in [0, 1): the draws, the thirds, and the largest Float
\* below 1
C17_Ucs == RDraws \cup {Q(1, 3), Q(2, 3)}

\* Which of the three ranges of the claim uc lies in
C17_Ranges(uc, sr, cr, dr) ==
    (IF QLe(uc, sr) THEN {"specular"} ELSE {}) \cup
    (IF QLt(sr, uc) /\ QLe(uc, QAdd(sr, cr)) THEN {"coat"} ELSE {}) \cup
    (IF QLt(QAdd(sr, cr), uc) /\ QLe(uc, QAdd(QAdd(sr, cr), dr))
     THEN {"diffuse"} ELSE {})

C18_SubsurfaceShare ==
    DisneySampled /\ ret.sample.present =>
        /\ bxdf.subsurface = Zero
              => ret.sample.flags # DiffuseTransmission
        /\ bxdf.subsurface = One
              => ret.sample.flags # DiffuseReflection

\* With subsurface = 0 a sample flagged DiffuseTransmission was returned
C18_TransmissionAtZero ==
    /\ DisneySampled /\ bxdf.subsurface = Zero
    /\ ret.sample.present /\ ret.sample.flags = DiffuseTransmission

\* With subsurface = 1 every value of the draw selects the transmission
C18_FullSubsurface ==
    DisneySampled /\ ret.sample.present /\ bxdf.subsurface = One
        => ret.sample.flags # DiffuseReflection

\* With subsurface = 1 a sample flagged DiffuseTransmission was returned
C18_TransmissionAtOne ==
    /\ DisneySampled /\ bxdf.subsurface = One
    /\ ret.sample.present /\ ret.sample.flags = DiffuseTransmission

DisneyEvaluated == LobeDone("f") /\ bxdf.kind = "Disney"

\* diffuse + sheen + specular + clearcoat * coat for wo on the upper side
C19_Reflection(b, wo, wi) ==
    LET FH == SchlickFresnel(HalfVectorDot(wo, wi))
        FD == FrDielectric(HalfVectorDot(wo, wi), b.eta)
        J == QDiv(One, QMul(Q(4, 1), QMul(AbsCosTheta(wo), AbsCosTheta(wi))))
    IN  SAdd(SAdd(SAdd(DisneyDiffuseF(b, wo, wi),
                       SConst(QMul(FH, Disney_sheen))),
                  Disney_spec(b, wo, wi, FD, J)),
             SConst(QMul(b.clearcoat, Disney_coat(wo, wi, FH, J))))

\* C19: DisneyBxDF::f returns, for wo and wi in opposite hemispheres, the
\* subsurface term when subsurface > 0 and zero when subsurface = 0; for wo
\* and wi in the same hemisphere, diffuse + sheen + specular +
\* clearcoat * coat without a subsurface term; and, the model being
\* two-sided, f(wo, wi) = f(-wo, -wi) whenever wo.z is not 0.
C19_DisneyF ==
    DisneyEvaluated =>
        LET up == call.wo >= 0
            wo == IF up THEN call.wo ELSE -call.wo
            wi == IF up THEN call.wi ELSE -call.wi
        IN  /\ ~SameHemisphere(call.wo, call.wi) =>
                  ret.f = IF QGt(bxdf.subsurface, Zero)
                          THEN DisneySubsurfaceF(bxdf, wo, wi)
                          ELSE SZero
            /\ SameHemisphere(call.wo, call.wi) =>
                  ret.f = C19_Reflection(bxdf, wo, wi)
            /\ call.wo # 0 =>
                  ret.f = Disney_f(bxdf, -call.wo, -call.wi, call.mode)

\* A non-zero value for wo on the lower side, the value of the mirrored pair
C19_LowerSide ==
    /\ DisneyEvaluated /\ call.wo < 0
    /\ SNonZero(ret.f)
    /\ ret.f = Disney_f(bxdf, -call.wo, -call.wi, call.mode)

\* No trial of the finished call of f added to the entrance term
C20_NothingAdded ==
    /\ LayeredDone("f")
    /\ loc.f = Layered_f_Enter(bxdf, call.wo, call.wi, call.mode).f

\* enterInterface.f(wo, wi) of the finished call for directions in the same
\* hemisphere, zero for directions in opposite hemispheres
C20_ZeroBounceTerm ==
    IF SameHemisphere(loc.wo, loc.wi)
    THEN TopOrBottom_f(bxdf, loc.enteredTop, loc.wo, loc.wi, call.mode)
    ELSE SZero

\* C20: LayeredBxDF::f adds the value of the entrance interface as a
\* zero-bounce term exactly when wo and wi are in the same hemisphere, and
\* the term survives the final division: when none of the nSamples trials
\* contributes, f(wo, wi) is enterInterface.f(wo, wi) for a pair in the same
\* hemisphere and zero for a pair in opposite hemispheres.
C20_ZeroBounce ==
    C20_NothingAdded => ret.f = C20_ZeroBounceTerm

\* With nSamples = 0 no trial contributes, and the value returned for a pair
\* in opposite hemispheres is not a number
C20_NoTrialsNotANumber ==
    /\ C20_NothingAdded /\ bxdf.nSamples = 0
    /\ ~SameHemisphere(loc.wo, loc.wi)
    /\ \E i \in DOMAIN ret.f : IsNaN(ret.f[i])

\* With at least one trial the zero-bounce term is what is returned
C20_ZeroBounce_Sampled ==
    C20_NothingAdded /\ bxdf.nSamples >= 1 => ret.f = C20_ZeroBounceTerm

\* Trials were made, none contributed, and the non-zero entrance term was
\* returned
C20_OnlyZeroBounce ==
    /\ C20_NothingAdded /\ hist.trials >= 2
    /\ SameHemisphere(loc.wo, loc.wi)
    /\ SNonZero(ret.f) /\ ret.f = C20_ZeroBounceTerm

\* C21: in LayeredBxDF::f the entrance interface is the top for a two-sided
\* instance (wo and wi negated when wo.z < 0) and is chosen by the sign of
\* wo.z otherwise; the exit interface is the entrance interface for wo and wi
\* in the same hemisphere and the other interface otherwise; exitZ is
\* thickness when the exit interface is the top and 0 when it is the bottom;
\* the walk starts at z = thickness when it entered at the top and at z = 0
\* otherwise.
C21_Interfaces ==
    IsLayered /\ call.op = "f" /\ pc \in {"f", "done"} =>
        LET flip == bxdf.twoSided /\ call.wo < 0
            wo == IF flip THEN -call.wo ELSE call.wo
            wi == IF flip THEN -call.wi ELSE call.wi
            enteredTop == IF bxdf.twoSided THEN TRUE ELSE call.wo > 0
            exitTop == IF SameHemisphere(wo, wi) THEN enteredTop
                       ELSE ~enteredTop
        IN  /\ loc.wo = wo /\ loc.wi = wi
            /\ loc.enteredTop = enteredTop
            /\ loc.exitTop = exitTop
            /\ loc.exitZ = IF exitTop THEN bxdf.thickness ELSE Zero
            /\ loc.exitZ # (IF exitTop THEN Zero ELSE bxdf.thickness)
            /\ loc.inWalk /\ loc.depth = 0 =>
                  loc.z = IF enteredTop THEN bxdf.thickness ELSE Zero

\* A walk of a one-sided instance that entered at the bottom, with wi on the
\* other side: it starts at z = 0 and exits at the top
C21_EnteredBottom ==
    /\ IsLayered /\ pc = "f" /\ ~bxdf.twoSided
    /\ loc.inWalk /\ loc.depth = 0
    /\ call.wo < 0 /\ call.wi > 0
    /\ ~loc.enteredTop /\ loc.exitTop
    /\ loc.z = Zero /\ loc.exitZ = bxdf.thickness

\* A walk of f or of Sample_f before an iteration of its loop
WalkAt(op) ==
    /\ IsLayered /\ pc = op /\ call.op = op
    /\ op = "f" => loc.inWalk
    /\ loc.depth < bxdf.maxDepth

\* The max-component of the throughput that the roulette tests: of beta in
\* f, of f / pdf in Sample_f
C22_Throughput ==
    IF pc = "f" THEN MaxComponentValue(loc.beta)
    ELSE QDiv(MaxComponentValue(loc.f), loc.pdf)

\* The roulette is applied: depth > 3 and throughput < 0.25
C22_Applied == loc.depth > 3 /\ QLt(C22_Throughput, Q(1, 4))

\* q = max(0, 1 - throughput)
C22_q == QMax(Zero, QSub(One, C22_Throughput))

\* C22: in the walks of f and Sample_f the Russian roulette is applied only
\* at depth > 3 with a throughput below 0.25; it ends the walk when the draw
\* is below q = max(0, 1 - throughput), and a walk that survives goes on with
\* beta / (1 - q) in f and with pdf * (1 - q) in Sample_f, so that (1 - q)
\* times the survivor's throughput is the throughput before the roulette.
C22_Roulette ==
    /\ WalkAt("f") =>
          \A rr \in DrawsIf(loc.depth > 3, EndDraws),
             rdz \in DrawsIf(SNonZero(bxdf.albedo), RDraws),
             uc \in StepUcDraws(bxdf), u \in StepUDraws(bxdf) :
             Layered_f_Iter(bxdf, loc, call.mode, rr, rdz, uc, u)
                = IF C22_Applied /\ QLt(rr, C22_q)
                  THEN Layered_f_Break(loc)
                  ELSE Layered_f_Advance(
                           bxdf, loc,
                           IF C22_Applied
                           THEN SScale(loc.beta, QInv(QSub(One, C22_q)))
                           ELSE loc.beta,
                           call.mode, rdz, uc, u)
    /\ WalkAt("Sample_f") =>
          \A rr \in DrawsIf(loc.depth > 3, EndDraws),
             rdz \in DrawsIf(SNonZero(bxdf.albedo), RDraws),
             uc \in StepUcDraws(bxdf), u \in StepUDraws(bxdf) :
             Layered_Sample_f_Iter(bxdf, loc, call.mode, rr, rdz, uc, u)
                = IF C22_Applied /\ QLt(rr, C22_q)
                  THEN Outcome("roulette", "none", NoSample, NoSample, loc)
                  ELSE Layered_Sample_f_Advance(
                           bxdf, loc,
                           IF C22_Applied
                           THEN QMul(loc.pdf, QSub(One, C22_q))
                           ELSE loc.pdf,
                           call.mode, rdz, uc, u)
    /\ (WalkAt("f") \/ WalkAt("Sample_f")) /\ C22_Applied
       /\ QGt(QSub(One, C22_q), Zero) =>
          /\ pc = "f" =>
                SScale(SScale(loc.beta, QInv(QSub(One, C22_q))),
                       QSub(One, C22_q)) = loc.beta
          /\ pc = "Sample_f" =>
                QMul(QSub(One, C22_q),
                     QDiv(MaxComponentValue(loc.f),
                          QMul(loc.pdf, QSub(One, C22_q))))
                   = C22_Throughput

\* A walk of f at depth > 3 whose throughput is below 0.25 and not zero: the
\* roulette is applied and the walk may survive it
C22_RouletteInF ==
    /\ WalkAt("f") /\ C22_Applied
    /\ QGt(C22_Throughput, Zero)

\* The iteration of the walk of f with these draws passes the roulette
C23_Survives(rr) == ~(C22_Applied /\ QLt(rr, C22_q))

\* The height at which the free flight of the iteration ends
C23_zp(rdz) ==
    IF ~SNonZero(bxdf.albedo)
    THEN IF QEq(loc.z, bxdf.thickness) THEN Zero ELSE bxdf.thickness
    ELSE FreeFlight(loc, rdz)

\* The iteration arrives at an interface: always without a medium; with a
\* medium, when the flight moved and did not end inside the slab
C23_AtInterface(rdz) ==
    \/ ~SNonZero(bxdf.albedo)
    \/ /\ ~QEq(loc.z, C23_zp(rdz))
       /\ ~(QLt(Zero, C23_zp(rdz)) /\ QLt(C23_zp(rdz), bxdf.thickness))

\* The throughput with which the iteration arrives at the interface
C23_Beta(rr) ==
    SScale(IF C22_Applied THEN SDiv(loc.beta, QSub(One, C22_q)) ELSE loc.beta,
           IF ~SNonZero(bxdf.albedo) THEN Tr(bxdf.thickness, loc.w) ELSE One)

C23_ExitSpecular == IsSpecular(TopOrBottom_Flags(bxdf, loc.exitTop))

C23_NonExitSpecular == IsSpecular(TopOrBottom_Flags(bxdf, ~loc.exitTop))

\* The contribution through the presampled direction wis, with the weight wt
C23_Presampled(beta, wt) ==
    SProd(SMul(SMul(beta,
                    TopOrBottom_f(bxdf, ~loc.exitTop, -loc.w, -loc.wis.wi,
                                  call.mode)),
               loc.wis.f),
          <<AbsCosTheta(loc.wis.wi), wt, Tr(bxdf.thickness, loc.wis.wi),
            QInv(loc.wis.pdf)>>)

\* C23 (as the code has it): in the walk of f, an arrival at the exit
\* interface samples only that interface's reflection and adds nothing to f;
\* an arrival at the non-exit interface leaves the contribution through the
\* presampled exit direction out only when the non-exit interface is
\* specular, adds it with weight 1 when only the exit interface is specular,
\* and with the power heuristic weight when neither is.
C23_PresampledUnlessNonExitSpecular ==
    WalkAt("f") =>
        \A rr \in DrawsIf(loc.depth > 3, EndDraws),
           rdz \in DrawsIf(SNonZero(bxdf.albedo), RDraws),
           uc \in StepUcDraws(bxdf), u \in StepUDraws(bxdf) :
            C23_Survives(rr) /\ C23_AtInterface(rdz) =>
                LET res == Layered_f_Iter(bxdf, loc, call.mode, rr, rdz, uc, u)
                    z == Clamp(C23_zp(rdz), Zero, bxdf.thickness)
                    beta == C23_Beta(rr)
                IN  IF QEq(z, loc.exitZ)
                    THEN /\ res.f = loc.f
                         /\ res.inWalk =>
                               /\ SameHemisphere(-loc.w, res.w)
                               /\ res.z = z
                    ELSE res =
                         Layered_f_NonExit(
                             bxdf, loc, z, beta, call.mode,
                             IF C23_NonExitSpecular THEN loc.f
                             ELSE SAdd(loc.f,
                                       C23_Presampled(
                                           beta,
                                           IF C23_ExitSpecular THEN One
                                           ELSE PowerHeuristic(
                                                    1, loc.wis.pdf, 1,
                                                    TopOrBottom_PDF(
                                                        bxdf, ~loc.exitTop,
                                                        -loc.w, -loc.wis.wi,
                                                        call.mode, All)))),
                             TopOrBottom_Sample_f(bxdf, ~loc.exitTop, -loc.w,
                                                  uc, u, call.mode, ReflOnly))

\* C23 as stated: an arrival at the non-exit interface adds nothing through
\* the presampled direction when either interface is specular.  With a
\* specular exit interface nothing is added along the sampled direction
\* either, so f would be left as it was.
C23_SkippedWhenEitherSpecular ==
    WalkAt("f") /\ (C23_ExitSpecular \/ C23_NonExitSpecular) =>
        \A rr \in DrawsIf(loc.depth > 3, EndDraws),
           rdz \in DrawsIf(SNonZero(bxdf.albedo), RDraws),
           uc \in StepUcDraws(bxdf), u \in StepUDraws(bxdf) :
            /\ C23_Survives(rr) /\ C23_AtInterface(rdz)
            /\ ~QEq(Clamp(C23_zp(rdz), Zero, bxdf.thickness), loc.exitZ)
            /\ C23_ExitSpecular
            => Layered_f_Iter(bxdf, loc, call.mode, rr, rdz, uc, u).f = loc.f

\* The first iteration of a walk arrived at a non-specular non-exit
\* interface under a non-specular exit interface, and the weighted
\* contribution is in f
C23_WeightedContribution ==
    /\ WalkAt("f") /\ loc.depth = 1 /\ loc.s = 0
    /\ ~QEq(loc.z, loc.exitZ)
    /\ ~C23_ExitSpecular /\ ~C23_NonExitSpecular
    /\ loc.f # Layered_f_Enter(bxdf, call.wo, call.wi, call.mode).f

\* Exactly one of the two references of x is not null
C24_OneReference(x) == x.top # x.bottom

\* x was never assigned
C24_Unassigned(x) == x = TopOrBottomBxDF_Default

\* The interface that the caller's object was assigned last
C24_LastTop == hist.assigned[Len(hist.assigned)] = "top"

\* A call through the caller's object returned what the sub-lobe assigned
\* last returns
C24_Dispatched ==
    LET x == TopOrBottom(bxdf, C24_LastTop)
    IN  CASE call.op = "TopOrBottom_f" ->
                ret = [NoRet EXCEPT
                          !.f = Layer_f(x, call.wo, call.wi, call.mode)]
          [] call.op = "TopOrBottom_PDF" ->
                ret = [NoRet EXCEPT
                          !.pdf = Layer_PDF(x, call.wo, call.wi, call.mode,
                                            call.sampleFlags)]
          [] call.op = "TopOrBottom_Flags" ->
                ret = [NoRet EXCEPT !.flags = Layer_Flags(x)]
          [] call.op = "TopOrBottom_Sample_f" ->
                \E uc \in RDraws, u \in U3 :
                    ret = [NoRet EXCEPT
                              !.sample = Layer_Sample_f(
                                             x, call.wo, uc, u, call.mode,
                                             call.sampleFlags)]

\* C24: after any sequence of assignments to a TopOrBottomBxDF exactly one
\* of its references is not null, and f, Sample_f, PDF and Flags go to the
\* sub-lobe assigned last; and in f, Sample_f and PDF of LayeredBxDF every
\* TopOrBottomBxDF that a call goes through has been assigned, to the
\* interface the method means, while the ones it has not assigned are not
\* called through.
C24_AssignedBeforeUse ==
    /\ /\ IsLayered
       /\ call.op \in {"none", "TopOrBottom_f", "TopOrBottom_Sample_f",
                       "TopOrBottom_PDF", "TopOrBottom_Flags"}
       /\ hist.assigned # <<>>
       => /\ C24_OneReference(loc.interfaces.interface)
          /\ TopOrBottom_Target(loc.interfaces.interface)
             = hist.assigned[Len(hist.assigned)]
          /\ pc # "abort"
          /\ pc = "done" => C24_Dispatched
    /\ IsLayered /\ call.op = "f" /\ pc \in {"f", "done"} =>
          /\ C24_OneReference(loc.interfaces.enterInterface)
          /\ C24_OneReference(loc.interfaces.exitInterface)
          /\ C24_OneReference(loc.interfaces.nonExitInterface)
          /\ loc.interfaces.enterInterface.top = loc.enteredTop
          /\ loc.interfaces.exitInterface.top = loc.exitTop
          /\ loc.interfaces.nonExitInterface.bottom = loc.exitTop
          /\ \A n \in {"interface", "rInterface", "tInterface",
                       "toInterface", "tiInterface"} :
                C24_Unassigned(loc.interfaces[n])
    /\ IsLayered /\ call.op = "Sample_f" =>
          /\ \/ C24_Unassigned(loc.interfaces.interface)
             \/ C24_OneReference(loc.interfaces.interface)
          /\ pc = "Sample_f" /\ hist.how = "continue"
             /\ ~SNonZero(bxdf.albedo) =>
                /\ C24_OneReference(loc.interfaces.interface)
                /\ loc.interfaces.interface.bottom = QEq(loc.z, Zero)
          /\ \A n \in {"enterInterface", "exitInterface", "nonExitInterface",
                       "rInterface", "tInterface", "toInterface",
                       "tiInterface"} :
                C24_Unassigned(loc.interfaces[n])
    /\ IsLayered /\ call.op = "PDF" /\ loc.s > 0 =>
          IF SameHemisphere(loc.wo, loc.wi)
          THEN /\ C24_OneReference(loc.interfaces.rInterface)
               /\ C24_OneReference(loc.interfaces.tInterface)
               /\ loc.interfaces.tInterface.top = loc.enteredTop
               /\ loc.interfaces.rInterface.bottom = loc.enteredTop
               /\ C24_Unassigned(loc.interfaces.toInterface)
               /\ C24_Unassigned(loc.interfaces.tiInterface)
          ELSE /\ C24_OneReference(loc.interfaces.toInterface)
               /\ C24_OneReference(loc.interfaces.tiInterface)
               /\ loc.interfaces.toInterface.top = loc.enteredTop
               /\ loc.interfaces.tiInterface.bottom = loc.enteredTop
               /\ C24_Unassigned(loc.interfaces.rInterface)
               /\ C24_Unassigned(loc.interfaces.tInterface)

\* An object assigned the top and then the bottom interface, and a call of
\* Flags through it that returned the bottom interface's flags, which the
\* top interface's are not
C24_ReassignedToBottom ==
    /\ IsLayered /\ pc = "done" /\ call.op = "TopOrBottom_Flags"
    /\ hist.assigned = <<"top", "bottom">>
    /\ ret.flags = Layer_Flags(bxdf.bottom)
    /\ ret.flags # Layer_Flags(bxdf.top)

\* A call of op is in its walk
C25_InWalk(op) ==
    IsLayered /\ pc = op /\ call.op = op /\ (op = "f" => loc.inWalk)

C25_AtInterface(z) == QEq(z, Zero) \/ QEq(z, bxdf.thickness)

C25_InBounds(z) == QLe(Zero, z) /\ QLe(z, bxdf.thickness)

\* C25: in the walks of f and Sample_f the height z stays within
\* [0, thickness]; without a medium it is at an interface in every state and
\* every iteration that goes on takes it to the other interface; with a
\* medium an iteration that goes on ends inside the slab only after a
\* scattering event, whose direction is the phase function's, or without
\* having moved; an interface is sampled only at z = 0 (the bottom) or
\* z = thickness (the top).
C25_Heights ==
    [][\A op \in {"f", "Sample_f"} :
           /\ C25_InWalk(op) =>
                 /\ C25_InBounds(loc.z)
                 /\ ~SNonZero(bxdf.albedo) => C25_AtInterface(loc.z)
           /\ C25_InWalk(op) /\ C25_InWalk(op)'
              /\ hist'.iters = hist.iters + 1 =>
                 /\ C25_InBounds(loc'.z)
                 /\ ~SNonZero(bxdf.albedo) =>
                       /\ C25_AtInterface(loc'.z)
                       /\ ~QEq(loc'.z, loc.z)
                 /\ ~C25_AtInterface(loc'.z) =>
                       \/ /\ loc'.z = loc.z /\ loc'.w = loc.w
                          /\ op = "f"
                       \/ /\ \E u \in StepUDraws(bxdf) :
                                /\ Sample_p(-loc.w, u).present
                                /\ loc'.w = Sample_p(-loc.w, u).wi
                                /\ op = "Sample_f" =>
                                      hist'.last
                                      = PhaseAsSample(Sample_p(-loc.w, u))
                          /\ op = "Sample_f" =>
                                /\ hist'.scattered
                                /\ loc'.interfaces = loc.interfaces
                 /\ op = "Sample_f"
                    /\ loc'.interfaces.interface # loc.interfaces.interface
                    => /\ C25_AtInterface(loc'.z)
                       /\ loc'.interfaces.interface.bottom
                          = QEq(loc'.z, Zero)
      ]_vars

\* A walk of Sample_f through a medium is inside the slab after a scattering
\* event
C25_ScatteredInside ==
    /\ C25_InWalk("Sample_f") /\ SNonZero(bxdf.albedo)
    /\ QLt(Zero, loc.z) /\ QLt(loc.z, bxdf.thickness)
    /\ hist.scattered

\* C26: the debug checks in the medium branch of Sample_f hold: a free
\* flight that ends at or below the bottom was going down, one that ends at
\* or above the top was going up, so no call of Sample_f stops in a check,
\* whatever the free flight of the next iteration is.
C26_DChecksHold ==
    /\ ~(IsLayered /\ call.op = "Sample_f" /\ hist.how = "dcheck")
    /\ C25_InWalk("Sample_f") /\ SNonZero(bxdf.albedo)
       /\ loc.depth < bxdf.maxDepth /\ loc.w # 0 =>
          \A rdz \in RDraws :
              \/ QEq(FreeFlight(loc, rdz), loc.z)
              \/ /\ QLt(Zero, FreeFlight(loc, rdz))
                 /\ QLt(FreeFlight(loc, rdz), bxdf.thickness)
              \/ /\ QLe(FreeFlight(loc, rdz), Zero) /\ loc.w < 0
              \/ /\ QLe(bxdf.thickness, FreeFlight(loc, rdz)) /\ loc.w > 0

\* A walk of Sample_f that scattered inside the medium and was then
\* reflected by the bottom interface: the flight from the inside ended at or
\* below the bottom, and the checks were passed
C26_ClampedToBottom ==
    /\ C25_InWalk("Sample_f") /\ SNonZero(bxdf.albedo)
    /\ hist.scattered /\ hist.how = "continue"
    /\ QEq(loc.z, Zero) /\ loc.w > 0
    /\ TopOrBottom_Target(loc.interfaces.interface) = "bottom"

\* C27: the roulette of f and of Sample_f never scales by a survival
\* probability of zero: whatever r() returns, a walk that passes the roulette
\* has 1 - q > 0, and with a throughput of zero (q = 1) every value of r()
\* is below q and the iteration ends the walk.
C27_SurvivalPositive ==
    \A op \in {"f", "Sample_f"} :
        WalkAt(op) /\ C22_Applied =>
            \A rr \in EndDraws :
                /\ ~QLt(rr, C22_q) => QGt(QSub(One, C22_q), Zero)
                /\ C22_Throughput = Zero =>
                      /\ C22_q = One
                      /\ QLt(rr, C22_q)
                      /\ \A rdz \in DrawsIf(SNonZero(bxdf.albedo), RDraws),
                            uc \in StepUcDraws(bxdf),
                            u \in StepUDraws(bxdf) :
                            IF op = "f"
                            THEN Layered_f_Iter(bxdf, loc, call.mode, rr,
                                                rdz, uc, u)
                                 = Layered_f_Break(loc)
                            ELSE Layered_Sample_f_Iter(bxdf, loc, call.mode,
                                                       rr, rdz, uc, u).how
                                 = "roulette"

\* A call of Sample_f whose walk reached the roulette with a throughput of
\* zero and was ended by it
C27_EndedAtZero ==
    /\ IsLayered /\ call.op = "Sample_f" /\ pc = "done"
    /\ hist.how = "roulette"
    /\ loc.depth > 3 /\ ~SNonZero(loc.f)

\* What Flags() of the instance returns
C28_Flags == IF IsLayered THEN Layered_Flags(bxdf) ELSE BxDF_Flags(bxdf)

\* A call of Sample_f returned a sample
C28_Sampled ==
    /\ pc = "done" /\ call.op = "Sample_f" /\ ret.sample.present
    /\ IsLayered => Layered_Flags_Check(bxdf)

\* C28 (as stated): the flags of every sample that Sample_f returns are
\* among the flags that Flags() of the lobe returns.
C28_SampleFlagsAdvertised ==
    C28_Sampled => ret.sample.flags \subseteq C28_Flags

\* A DiffuseBxDF with R = 0, whose Flags() is Unset, returned a sample
\* flagged as a diffuse reflection
C28_UnadvertisedDiffuse ==
    /\ C28_Sampled /\ bxdf.kind = "Diffuse" /\ ~SNonZero(bxdf.R)
    /\ C28_Flags = {}
    /\ ret.sample.flags = {"Reflection", "Diffuse"}

====
